---- MODULE Spec2Model ----
(***************************************************************************)
(* A model of DenseMatrix.js: the nested-array tensor (DenseMatrix), the   *)
(* array utilities it rests on (arraySize, resize, reshape, flatten), the   *)
(* deep clone and the norm module.                                          *)
(*                                                                          *)
(* JavaScript arrays are objects with identity, so the model keeps a heap:  *)
(* heap[a] is the element sequence of the array at address a, and a tensor  *)
(* holds the address of its backing array.  Every JavaScript value is a     *)
(* record [k, v]: k = "num" (a number v), "ref" (the array at address v),   *)
(* "undef" (undefined, also an array hole), "nan" (NaN), "ring" / "div"     *)
(* (an object whose declared algebra is a Ring-only / DivisionRing-only     *)
(* algebra, carrying v), "mat" (the DenseMatrix mats[v], as an element of   *)
(* a caller's array literal).                                               *)
(***************************************************************************)
EXTENDS Integers, Sequences, FiniteSets, TLC

VARIABLES heap, mats, arrs, last, steps

vars == <<heap, mats, arrs, last, steps>>

(***************************************************************************)
(* Bounds of the model.                                                     *)
(***************************************************************************)
MaxMats == 3
MaxHeap == 8
MaxDim == 2
MaxSteps == 3

(***************************************************************************)
(* Values.                                                                  *)
(***************************************************************************)
Num(n) == [k |-> "num", v |-> n]
Ref(a) == [k |-> "ref", v |-> a]
Mat(i) == [k |-> "mat", v |-> i]
RingEl(n) == [k |-> "ring", v |-> n]
DivEl(n) == [k |-> "div", v |-> n]
NormedEl(n) == [k |-> "normed", v |-> n]
Undef == [k |-> "undef", v |-> 0]
NaN == [k |-> "nan", v |-> 0]
\* the number v + 1/2
Frac(n) == [k |-> "frac", v |-> n]

isArray(x) == x.k = "ref"

\* typeof x === 'number' (NaN is a number)
isNumber(x) == x.k \in {"num", "nan", "frac"}

\* utils/number isInteger
isInteger(x) == x.k = "num"

\* array[i] for a zero-based i; reading past the end gives undefined
At(s, i) == IF i >= 0 /\ i < Len(s) THEN s[i + 1] ELSE Undef

\* array[i] = v for a zero-based i >= 0: the array grows as needed
Put(s, i, v) ==
  [j \in 1..(IF i + 1 > Len(s) THEN i + 1 ELSE Len(s)) |->
     IF j = i + 1 THEN v ELSE IF j <= Len(s) THEN s[j] ELSE Undef]

\* array.length = n: truncates, or extends with holes
SetLength(s, n) == [j \in 1..n |-> IF j <= Len(s) THEN s[j] ELSE Undef]

\* a new array object holding s: its address is the next free one
Alloc(h, s) == Append(h, s)
NewAddr(h) == Len(h) + 1

(***************************************************************************)
(* Outcomes of a call: a returned value or a thrown error.  A thrown        *)
(* DimensionError carries (actual, expected, relation), an ArithmeticError  *)
(* the expected arithmetic.                                                 *)
(***************************************************************************)
Ok(x) == [out |-> "ok", err |-> "none", info |-> "", actual |-> 0, expected |-> 0, val |-> x]
Throw(e, i) == [out |-> "throw", err |-> e, info |-> i, actual |-> 0, expected |-> 0, val |-> Undef]
DimensionError(a, e, rel) ==
  [out |-> "throw", err |-> "DimensionError", info |-> rel, actual |-> a, expected |-> e, val |-> Undef]
ArithmeticError(expectedArithmetic) == Throw("ArithmeticError", expectedArithmetic)
\* a returned string, kept in info
OkString(str) == [Ok(Undef) EXCEPT !.info = str]

(***************************************************************************)
(* utils/array: arraySize                                                   *)
(***************************************************************************)
RECURSIVE arraySize(_, _)
arraySize(h, x) ==
  IF isArray(x) THEN <<Len(h[x.v])>> \o arraySize(h, At(h[x.v], 0)) ELSE <<>>

(***************************************************************************)
(* utils/object: clone.  Returns the heap after the copy and the copy.      *)
(* Scalars (numbers, undefined, immutable algebra elements) are themselves. *)
(***************************************************************************)
\* a variant of clone that copies the outermost array only
cloneShallow(h, x) ==
  IF isArray(x) THEN [h |-> Alloc(h, h[x.v]), val |-> Ref(NewAddr(h))] ELSE [h |-> h, val |-> x]

RECURSIVE clone(_, _), cloneFrom(_, _, _, _)
clone(h, x) ==
  IF isArray(x) THEN cloneFrom(h, h[x.v], 1, <<>>) ELSE [h |-> h, val |-> x]
cloneFrom(h, src, i, acc) ==
  IF i > Len(src) THEN [h |-> Alloc(h, acc), val |-> Ref(NewAddr(h))]
  ELSE LET c == clone(h, src[i]) IN cloneFrom(c.h, src, i + 1, Append(acc, c.val))

\* valueOf returns the backing array itself, not a copy
valueOf(m) == m.data

\* toArray returns clone(this.#data)
toArray(h, m) == clone(h, Ref(m.data))

(***************************************************************************)
(* DenseMatrix: preprocess.  Replaces, in place, every DenseMatrix nested   *)
(* in the array at address a by that matrix's own backing array.            *)
(***************************************************************************)
RECURSIVE preprocess(_, _, _), preprocessFrom(_, _, _, _)
preprocess(h, ms, a) == preprocessFrom(h, ms, a, 1)
preprocessFrom(h, ms, a, i) ==
  IF i > Len(h[a]) THEN h
  ELSE LET elem == h[a][i] IN
       IF isArray(elem) THEN preprocessFrom(preprocess(h, ms, elem.v), ms, a, i + 1)
       ELSE IF elem.k = "mat" THEN
         LET d == valueOf(ms[elem.v])
             h1 == preprocess(h, ms, d)
         IN preprocessFrom([h1 EXCEPT ![a][i] = Ref(d)], ms, a, i + 1)
       ELSE preprocessFrom(h, ms, a, i + 1)

(***************************************************************************)
(* The scalar arithmetic found by the constructor: the first leaf decides.  *)
(***************************************************************************)
RECURSIVE firstLeaf(_, _)
firstLeaf(h, el) == IF isArray(el) THEN firstLeaf(h, At(h[el.v], 0)) ELSE el

\* el[symbols.Arithmetics] of a non-number leaf
ArithmeticsOf(el) ==
  IF el.k = "ring" THEN "Ring" ELSE IF el.k = "div" THEN "DivisionRing"
  ELSE IF el.k = "normed" THEN "NormedDivisionRing" ELSE "undefined"

\* the tail of the constructor: a tensor over data/size, or the TypeError of
\* reading a property of undefined
finish(h, data, size, datatype) ==
  LET el == firstLeaf(h, At(h[data], 0)) IN
  IF ~isNumber(el) /\ el.k = "undef"
  THEN [h |-> h, res |-> Throw("TypeError", "undefined leaf"), m |-> <<>>]
  ELSE [h |-> h, res |-> Ok(Undef),
        m |-> <<[data |-> data, size |-> size, datatype |-> datatype,
                 sa |-> IF isNumber(el) THEN "Number" ELSE ArithmeticsOf(el)]>>]

\* a variant of the array branch that takes a copy of the caller's array
newFromArrayCloned(h, ms, a) ==
  LET c == clone(h, Ref(a))
      h1 == preprocess(c.h, ms, c.val.v)
  IN finish(h1, c.val.v, arraySize(h1, c.val), "undefined")

\* new DenseMatrix(data) for the array at address a
newFromArray(h, ms, a) ==
  LET h1 == preprocess(h, ms, a) IN finish(h1, a, arraySize(h1, Ref(a)), "undefined")

\* new DenseMatrix(m) for a DenseMatrix m
newFromMatrix(h, m) ==
  LET c == clone(h, Ref(m.data)) IN finish(c.h, c.val.v, m.size, m.datatype)

\* toJSON: the live data and size, not copies
toJSON(m) == [mathjs |-> "DenseMatrix", data |-> m.data, size |-> m.size, datatype |-> m.datatype]

\* new DenseMatrix(json) for a serialized matrix
newFromSerialized(h, json) ==
  LET c == clone(h, Ref(json.data)) IN finish(c.h, c.val.v, json.size, json.datatype)

fromJSON(h, json) ==
  IF json.mathjs # "DenseMatrix" THEN [h |-> h, res |-> Throw("TypeError", "not serialized"), m |-> <<>>]
  ELSE newFromSerialized(h, json)

\* utils/array _validate: every array at depth dim has length size[dim],
\* arrays all the way down to the last dimension and none below it
RECURSIVE _validate(_, _, _, _), _validateFrom(_, _, _, _, _)
_validate(h, a, size, dim) ==
  IF Len(h[a]) # size[dim] THEN DimensionError(Len(h[a]), size[dim], "!=")
  ELSE _validateFrom(h, a, size, dim, 1)
_validateFrom(h, a, size, dim, i) ==
  IF i > Len(h[a]) THEN Ok(Undef)
  ELSE IF dim < Len(size)
       THEN IF ~isArray(h[a][i]) THEN DimensionError(Len(size) - 1, Len(size), "<")
            ELSE LET r == _validate(h, h[a][i].v, size, dim + 1)
                 IN IF r.out = "throw" THEN r ELSE _validateFrom(h, a, size, dim, i + 1)
       ELSE IF isArray(h[a][i]) THEN DimensionError(Len(size) + 1, Len(size), ">")
            ELSE _validateFrom(h, a, size, dim, i + 1)

validate(h, x, size) ==
  IF Len(size) = 0
  THEN IF isArray(x) THEN DimensionError(Len(h[x.v]), 0, "!=") ELSE Ok(Undef)
  ELSE _validate(h, x.v, size, 1)

(***************************************************************************)
(* The datatype of a tensor.  utils/is typeOf and utils/array               *)
(* getArrayDataType give a tag: a string, or undefined ("undefined" here;   *)
(* the string 'undefined', the type of an undefined leaf, is                *)
(* "'undefined'").  The getter keeps what it computed in #datatype, unless  *)
(* that is undefined.                                                       *)
(***************************************************************************)
\* a string, as a leaf
Str == [k |-> "str", v |-> 0]

typeOf(x) ==
  IF isNumber(x) THEN "number"
  ELSE IF x.k = "undef" THEN "'undefined'"
  ELSE IF x.k = "str" THEN "string"
  ELSE IF isArray(x) THEN "Array"
  ELSE "Object"

RECURSIVE getArrayDataType(_, _), getArrayDataTypeFrom(_, _, _, _, _)
getArrayDataType(h, a) == getArrayDataTypeFrom(h, h[a], 1, "undefined", 0)
getArrayDataTypeFrom(h, array, i, type, length) ==
  IF i > Len(array) THEN type
  ELSE LET item == array[i]
           len == IF i = 1 /\ isArray(item) THEN Len(h[item.v]) ELSE length
       IN IF isArray(item) /\ Len(h[item.v]) # len THEN "undefined"
          ELSE LET itemType == IF isArray(item) THEN getArrayDataType(h, item.v) ELSE typeOf(item)
               IN IF type = "undefined" THEN getArrayDataTypeFrom(h, array, i + 1, itemType, len)
                  ELSE IF type # itemType THEN "mixed"
                  ELSE getArrayDataTypeFrom(h, array, i + 1, type, len)

\* get datatype(): the tensor with its #datatype assigned, and the value returned
datatype(h, m) ==
  LET d == IF m.datatype # "undefined" THEN m.datatype ELSE getArrayDataType(h, m.data)
  IN [m |-> [m EXCEPT !.datatype = d], val |-> d]

\* new DenseMatrix(data, datatype) for the array at address a: the array
\* branch does not read the datatype argument
newFromArrayTyped(h, ms, a, dt) == newFromArray(h, ms, a)

\* new DenseMatrix(m, datatype) for a DenseMatrix m: datatype ?? m.#datatype
newFromMatrixTyped(h, m, dt) ==
  LET c == clone(h, Ref(m.data)) IN
  finish(c.h, c.val.v, m.size, IF dt # "undefined" THEN dt ELSE m.datatype)

(***************************************************************************)
(* utils/array: validateIndex.                                              *)
(***************************************************************************)
\* a variant of validateIndex that has no lower bound
validateBelowLength(index, length) ==
  IF ~isNumber(index) \/ ~isInteger(index) THEN Throw("TypeError", "Index must be an integer")
  ELSE IF index.v >= length THEN Throw("IndexError", "out of range")
  ELSE Ok(Undef)

validateIndex(index, length) ==
  IF ~isNumber(index) \/ ~isInteger(index) THEN Throw("TypeError", "Index must be an integer")
  ELSE IF index.v < 0 \/ index.v >= length THEN Throw("IndexError", "out of range")
  ELSE Ok(Undef)

(***************************************************************************)
(* DenseMatrix.get.  An index is a sequence of values; getAt is get at a    *)
(* sequence of integers.                                                    *)
(***************************************************************************)
RECURSIVE getWalk(_, _, _, _)
getWalk(h, data, index, i) ==
  IF i > Len(index)
  THEN IF isArray(data) THEN Throw("InternalError", "Expected scalar") ELSE Ok(data)
  ELSE IF ~isArray(data) THEN Throw("InternalError", "Expected array")
  ELSE IF validateIndex(index[i], Len(h[data.v])).out = "throw"
       THEN validateIndex(index[i], Len(h[data.v]))
  ELSE getWalk(h, At(h[data.v], index[i].v), index, i + 1)

\* the first component, from x on, that validateIndex rejects against the size
RECURSIVE checkIndex(_, _, _)
checkIndex(index, size, x) ==
  IF x > Len(index) THEN Ok(Undef)
  ELSE IF validateIndex(index[x], size[x]).out = "throw" THEN validateIndex(index[x], size[x])
  ELSE checkIndex(index, size, x + 1)

get(h, m, index) ==
  IF Len(index) # Len(m.size) THEN DimensionError(Len(index), Len(m.size), "!=")
  ELSE IF checkIndex(index, m.size, 1).out = "throw" THEN checkIndex(index, m.size, 1)
  ELSE getWalk(h, Ref(m.data), index, 1)

getAt(h, m, index) == get(h, m, [x \in 1..Len(index) |-> Num(index[x])])

(***************************************************************************)
(* DenseMatrix.set.  retrieveTopArrayByIndex walks the index but for its    *)
(* last component and returns the array reached; set then writes            *)
(* arr[lastI] = value.                                                      *)
(***************************************************************************)
RECURSIVE retrieveTopArrayByIndex(_, _, _, _)
retrieveTopArrayByIndex(h, data, index, i) ==
  IF i >= Len(index) THEN Ok(data)
  ELSE IF ~isArray(data) THEN Throw("TypeError", "not an array")
  ELSE retrieveTopArrayByIndex(h, At(h[data.v], index[i]), index, i + 1)

\* a variant of set without the test of the index length against the rank
setUnchecked(h, m, index, value) ==
  LET arr == retrieveTopArrayByIndex(h, Ref(m.data), index, 1) IN
  IF arr.out = "throw" THEN [h |-> h, res |-> arr]
  ELSE IF ~isArray(arr.val) THEN [h |-> h, res |-> Throw("TypeError", "not an array")]
  ELSE IF Len(index) = 0 THEN [h |-> h, res |-> Ok(Undef)]
  ELSE [h |-> [h EXCEPT ![arr.val.v] = Put(@, index[Len(index)], value)],
        res |-> Ok(Undef)]

set(h, m, index, value) ==
  IF Len(index) < Len(m.size)
  THEN [h |-> h, res |-> DimensionError(Len(index), Len(m.size), "<")]
  ELSE LET arr == retrieveTopArrayByIndex(h, Ref(m.data), index, 1) IN
       IF arr.out = "throw" THEN [h |-> h, res |-> arr]
       ELSE IF ~isArray(arr.val) THEN [h |-> h, res |-> Throw("TypeError", "not an array")]
       ELSE IF Len(index) = 0 THEN [h |-> h, res |-> Ok(Undef)]
       ELSE [h |-> [h EXCEPT ![arr.val.v] = Put(@, index[Len(index)], value)],
             res |-> Ok(Undef)]

\* DenseMatrix.set on mats[i]: what it returns is `this`, the matrix mats[i]
mset(h, ms, i, index, value) ==
  LET r == set(h, ms[i], index, value) IN
  [h |-> r.h, ms |-> ms, res |-> IF r.res.out = "ok" THEN Ok(Mat(i)) ELSE r.res]

(***************************************************************************)
(* utils/array: resize and _resize (dim is one-based here).                 *)
(***************************************************************************)
Min(a, b) == IF a < b THEN a ELSE b

RECURSIVE _resize(_, _, _, _, _), resizeExisting(_, _, _, _, _, _, _), resizeNew(_, _, _, _, _, _, _)
\* a variant of _resize that leaves the nesting of the existing values of the
\* last dimension as it is
_resizeKeepNesting(h, a, size, dim, defaultValue) ==
  LET oldLen == Len(h[a])
      newLen == size[dim]
      minLen == Min(oldLen, newLen)
      h0 == [h EXCEPT ![a] = SetLength(@, newLen)]
  IN IF dim < Len(size)
     THEN resizeNew(resizeExisting(h0, a, size, dim, defaultValue, 0, minLen),
                    a, size, dim, defaultValue, minLen, newLen)
     ELSE [h0 EXCEPT ![a] = [j \in 1..newLen |->
             IF j <= minLen THEN h0[a][j] ELSE defaultValue]]

_resize(h, a, size, dim, defaultValue) ==
  LET oldLen == Len(h[a])
      newLen == size[dim]
      minLen == Min(oldLen, newLen)
      h0 == [h EXCEPT ![a] = SetLength(@, newLen)]
  IN IF dim < Len(size)
     THEN resizeNew(resizeExisting(h0, a, size, dim, defaultValue, 0, minLen),
                    a, size, dim, defaultValue, minLen, newLen)
     ELSE [h0 EXCEPT ![a] = [j \in 1..newLen |->
             IF j <= minLen THEN firstLeaf(h0, h0[a][j]) ELSE defaultValue]]

\* for (let i = 0; i < minLen; i++): resize the child, wrapping a bare scalar
resizeExisting(h, a, size, dim, defaultValue, i, minLen) ==
  IF i >= minLen THEN h
  ELSE LET elem == h[a][i + 1] IN
       IF isArray(elem)
       THEN resizeExisting(_resize(h, elem.v, size, dim + 1, defaultValue),
                           a, size, dim, defaultValue, i + 1, minLen)
       ELSE LET n == NewAddr(h)
                h1 == [Alloc(h, <<elem>>) EXCEPT ![a][i + 1] = Ref(n)]
            IN resizeExisting(_resize(h1, n, size, dim + 1, defaultValue),
                              a, size, dim, defaultValue, i + 1, minLen)

\* for (let i = minLen; i < newLen; i++): a new child array
resizeNew(h, a, size, dim, defaultValue, i, newLen) ==
  IF i >= newLen THEN h
  ELSE LET n == NewAddr(h)
           h1 == [Alloc(h, <<>>) EXCEPT ![a][i + 1] = Ref(n)]
       IN resizeNew(_resize(h1, n, size, dim + 1, defaultValue),
                    a, size, dim, defaultValue, i + 1, newLen)

resize(h, a, size, defaultValue) ==
  IF Len(size) = 0 THEN [h |-> h, res |-> Throw("Error", "Resizing to scalar is not supported")]
  ELSE IF \E i \in 1..Len(size) : size[i] < 0
       THEN [h |-> h, res |-> Throw("TypeError", "Invalid size")]
  ELSE [h |-> _resize(h, a, size, 1, IF defaultValue = Undef THEN Num(0) ELSE defaultValue),
        res |-> Ok(Ref(a))]

(***************************************************************************)
(* DenseMatrix.resize on mats[i].  Returns the heap, the matrices and the   *)
(* outcome; `new` is the index of the returned matrix.  The size is         *)
(* assigned before utils/array resize validates it.                         *)
(***************************************************************************)
mresize(h, ms, i, size, defaultValue, copy) ==
  LET c == IF copy THEN newFromMatrix(h, ms[i]) ELSE [h |-> h, res |-> Ok(Undef), m |-> <<ms[i]>>] IN
  IF c.res.out = "throw" THEN [h |-> h, ms |-> ms, res |-> c.res, new |-> 0]
  ELSE LET matrix == [c.m[1] EXCEPT !.size = size]
           r == resize(c.h, matrix.data, size, defaultValue)
           target == IF copy THEN Len(ms) + 1 ELSE i
       IN IF r.res.out = "throw"
          THEN \* a copy that was never returned is unreachable: only `this` is kept
               [h |-> IF copy THEN h ELSE r.h,
                ms |-> IF copy THEN ms ELSE [ms EXCEPT ![i] = matrix],
                res |-> r.res, new |-> 0]
          ELSE [h |-> r.h,
                ms |-> IF copy THEN Append(ms, matrix) ELSE [ms EXCEPT ![i] = matrix],
                res |-> Ok(Undef), new |-> target]


(***************************************************************************)
(* Scalar arithmetics.  "Number" is NumberArithmetics, which carries every  *)
(* capability tag; "Ring" and "DivisionRing" are algebras declared by the   *)
(* elements themselves; "undefined" is a leaf that declares none.           *)
(***************************************************************************)
Tags(sa) ==
  IF sa = "Number" THEN {"Ring", "DivisionRing", "NormedDivisionRing", "Real"}
  ELSE IF sa = "Ring" THEN {"Ring"}
  ELSE IF sa = "DivisionRing" THEN {"Ring", "DivisionRing"}
  ELSE IF sa = "NormedDivisionRing" THEN {"Ring", "DivisionRing", "NormedDivisionRing"}
  ELSE {}

KindOf(sa) ==
  IF sa = "Number" THEN "num" ELSE IF sa = "Ring" THEN "ring"
  ELSE IF sa = "NormedDivisionRing" THEN "normed" ELSE "div"

IsScalar(x) == x.k \in {"num", "ring", "div", "normed"}

Abs(n) == IF n < 0 THEN -n ELSE n

RECURSIVE IntPow(_, _)
IntPow(n, e) == IF e <= 0 THEN 1 ELSE n * IntPow(n, e - 1)

zero(sa) == [k |-> KindOf(sa), v |-> 0]
add(x, y) == IF IsScalar(x) /\ x.k = y.k THEN [k |-> x.k, v |-> x.v + y.v] ELSE NaN
sub(x, y) == IF IsScalar(x) /\ x.k = y.k THEN [k |-> x.k, v |-> x.v - y.v] ELSE NaN
mul(x, y) == IF IsScalar(x) /\ x.k = y.k THEN [k |-> x.k, v |-> x.v * y.v] ELSE NaN
neg(x) == IF IsScalar(x) THEN [k |-> x.k, v |-> -x.v] ELSE NaN
\* exact quotients only: the divisors drawn below always divide
div(x, y) ==
  IF IsScalar(x) /\ x.k = y.k /\ y.v # 0 /\ x.v % Abs(y.v) = 0
  THEN [k |-> x.k, v |-> IF y.v < 0 THEN -(x.v \div Abs(y.v)) ELSE x.v \div y.v] ELSE NaN
\* powers with a natural exponent
pow(x, y) ==
  IF IsScalar(x) /\ y.k \in {x.k, "num"} /\ y.v >= 0 THEN [k |-> x.k, v |-> IntPow(x.v, y.v)] ELSE NaN
norm1(x) == IF IsScalar(x) THEN [k |-> x.k, v |-> Abs(x.v)] ELSE NaN
gt(x, y) == IsScalar(x) /\ x.k = y.k /\ x.v > y.v
lt(x, y) == IsScalar(x) /\ x.k = y.k /\ x.v < y.v

(***************************************************************************)
(* Element callbacks handed to map: cb.f names the arrow function in the    *)
(* source, cb.b its captured scalar.  A call on an arithmetic that is       *)
(* undefined throws.                                                        *)
(***************************************************************************)
Callback(f, b) == [f |-> f, b |-> b]

apply(sa, cb, value) ==
  IF cb.f = "const" THEN Ok(cb.b)
  ELSE IF sa = "undefined" THEN Throw("TypeError", "undefined arithmetic")
  ELSE IF cb.f = "neg" THEN Ok(neg(value))
  ELSE IF cb.f = "scale" THEN Ok(mul(cb.b, value))
  ELSE IF cb.f = "dotAdd" THEN Ok(add(value, cb.b))
  ELSE IF cb.f = "dotSub" THEN Ok(sub(value, cb.b))
  ELSE IF cb.f = "dotMul" THEN Ok(mul(value, cb.b))
  ELSE IF cb.f = "dotDiv" THEN Ok(div(value, cb.b))
  ELSE IF cb.f = "dotPow" THEN Ok(pow(value, cb.b))
  ELSE IF cb.f = "norm" THEN Ok(norm1(value))
  ELSE Ok(value)

(***************************************************************************)
(* DenseMatrix.map: recurse builds a new nested array, calling the callback *)
(* on every leaf; the result goes through the constructor's array branch.   *)
(* `calls` counts the callback invocations.                                 *)
(***************************************************************************)
RECURSIVE recurse(_, _, _, _, _), recurseFrom(_, _, _, _, _, _, _)
recurse(h, sa, cb, value, calls) ==
  IF isArray(value) THEN recurseFrom(h, sa, cb, h[value.v], 1, <<>>, calls)
  ELSE LET r == apply(sa, cb, value) IN [h |-> h, res |-> r, calls |-> calls + 1]
recurseFrom(h, sa, cb, src, i, acc, calls) ==
  IF i > Len(src) THEN [h |-> Alloc(h, acc), res |-> Ok(Ref(NewAddr(h))), calls |-> calls]
  ELSE LET c == recurse(h, sa, cb, src[i], calls) IN
       IF c.res.out = "throw" THEN c
       ELSE recurseFrom(c.h, sa, cb, src, i + 1, Append(acc, c.res.val), c.calls)

\* a variant of map that hands the constructor the new data inside one more array
mapWrapped(h, ms, m, cb) ==
  LET d == recurse(h, m.sa, cb, Ref(m.data), 0)
      n == newFromArray(Alloc(d.h, <<d.res.val>>), ms, NewAddr(d.h))
  IN [h |-> n.h, res |-> n.res, m |-> n.m, calls |-> d.calls]

map(h, ms, m, cb) ==
  LET d == recurse(h, m.sa, cb, Ref(m.data), 0) IN
  IF d.res.out = "throw" THEN [h |-> h, res |-> d.res, m |-> <<>>, calls |-> d.calls]
  ELSE LET n == newFromArray(d.h, ms, d.res.val.v) IN
       [h |-> IF n.res.out = "throw" THEN h ELSE n.h, res |-> n.res, m |-> n.m, calls |-> d.calls]

(***************************************************************************)
(* DenseMatrix.forEach: recurse calls the callback on every leaf and builds *)
(* nothing.                                                                 *)
(***************************************************************************)
RECURSIVE each(_, _, _, _, _), eachFrom(_, _, _, _, _, _)
each(h, sa, cb, value, calls) ==
  IF isArray(value) THEN eachFrom(h, sa, cb, h[value.v], 1, calls)
  ELSE LET r == apply(sa, cb, value) IN
       [res |-> IF r.out = "throw" THEN r ELSE Ok(Undef), calls |-> calls + 1]
eachFrom(h, sa, cb, src, i, calls) ==
  IF i > Len(src) THEN [res |-> Ok(Undef), calls |-> calls]
  ELSE LET c == each(h, sa, cb, src[i], calls) IN
       IF c.res.out = "throw" THEN c ELSE eachFrom(h, sa, cb, src, i + 1, c.calls)

forEach(h, m, cb) == each(h, m.sa, cb, Ref(m.data), 0)

(***************************************************************************)
(* DenseMatrix.add and DenseMatrix.sub: a map whose callback reads the      *)
(* operand at the index of the leaf it is called on.                        *)
(***************************************************************************)
RECURSIVE recurseAt(_, _, _, _, _, _), recurseAtFrom(_, _, _, _, _, _, _, _)
recurseAt(h, m, other, f, value, index) ==
  IF isArray(value) THEN recurseAtFrom(h, m, other, f, h[value.v], index, 1, <<>>)
  ELSE IF m.sa = "undefined" THEN [h |-> h, res |-> Throw("TypeError", "undefined arithmetic")]
  ELSE LET g == getAt(h, other, index) IN
       IF g.out = "throw" THEN [h |-> h, res |-> g]
       ELSE [h |-> h, res |-> Ok(IF f = "add" THEN add(value, g.val) ELSE sub(value, g.val))]
recurseAtFrom(h, m, other, f, src, index, i, acc) ==
  IF i > Len(src) THEN [h |-> Alloc(h, acc), res |-> Ok(Ref(NewAddr(h)))]
  ELSE LET c == recurseAt(h, m, other, f, src[i], Append(index, i - 1)) IN
       IF c.res.out = "throw" THEN c
       ELSE recurseAtFrom(c.h, m, other, f, src, index, i + 1, Append(acc, c.res.val))

\* a.add(m) for f = "add", a.sub(m) for f = "sub"
madd(h, ms, a, m, f) ==
  LET d == recurseAt(h, a, m, f, Ref(a.data), <<>>) IN
  IF d.res.out = "throw" THEN [h |-> h, res |-> d.res, m |-> <<>>]
  ELSE LET n == newFromArray(d.h, ms, d.res.val.v) IN
       [h |-> IF n.res.out = "throw" THEN h ELSE n.h, res |-> n.res, m |-> n.m]

(***************************************************************************)
(* The arguments (value, index) that the recurse of map and of forEach      *)
(* hands to the callback, in the order of the calls.                        *)
(***************************************************************************)
RECURSIVE visits(_, _, _), visitsFrom(_, _, _, _)
visits(h, value, index) ==
  IF isArray(value) THEN visitsFrom(h, h[value.v], index, 1)
  ELSE << [value |-> value, index |-> index] >>
visitsFrom(h, src, index, i) ==
  IF i > Len(src) THEN <<>>
  ELSE visits(h, src[i], Append(index, i - 1)) \o visitsFrom(h, src, index, i + 1)

(***************************************************************************)
(* DenseMatrix[Symbol.iterator]: a generator.  Its suspended state is the   *)
(* stack of the loops of recurse it is in: the array a and the loop         *)
(* variable i of each.  next() resumes it until the next yield.             *)
(***************************************************************************)
RECURSIVE resume(_, _)
resume(h, stack) ==
  IF stack = <<>> THEN [stack |-> <<>>, done |-> TRUE, value |-> Undef, index |-> <<>>]
  ELSE LET top == stack[Len(stack)] IN
       IF top.i >= Len(h[top.a]) THEN resume(h, SubSeq(stack, 1, Len(stack) - 1))
       ELSE LET child == h[top.a][top.i + 1]
                moved == [stack EXCEPT ![Len(stack)].i = @ + 1]
            IN IF isArray(child) THEN resume(h, Append(moved, [a |-> child.v, i |-> 0]))
               ELSE [stack |-> moved, done |-> FALSE, value |-> child,
                     index |-> [k \in 1..Len(moved) |-> moved[k].i - 1]]

(***************************************************************************)
(* DenseMatrix.rows and DenseMatrix.columns: a sequence of new matrices.    *)
(***************************************************************************)
RECURSIVE rowsFrom(_, _, _, _, _)
rowsFrom(h, ms, data, i, result) ==
  IF i > Len(data) THEN [h |-> h, res |-> Ok(Undef), m |-> result]
  ELSE LET n == newFromArray(Alloc(h, <<data[i]>>), ms, NewAddr(h)) IN
       IF n.res.out = "throw" THEN [h |-> h, res |-> n.res, m |-> <<>>]
       ELSE rowsFrom(n.h, ms, data, i + 1, result \o n.m)

rows(h, ms, m) ==
  IF Len(m.size) # 2 THEN [h |-> h, res |-> Throw("TypeError", "Rows can only be returned for a 2D matrix."), m |-> <<>>]
  ELSE LET r == rowsFrom(h, ms, h[m.data], 1, <<>>) IN
       IF r.res.out = "throw" THEN [r EXCEPT !.h = h] ELSE r

\* row => [row[i]], for every row of data: the new arrays, or the TypeError
\* of indexing undefined
RECURSIVE colFrom(_, _, _, _, _)
colFrom(h, data, i, r, acc) ==
  IF r > Len(data) THEN [h |-> Alloc(h, acc), res |-> Ok(Ref(NewAddr(h)))]
  ELSE LET row == data[r] IN
       IF row.k = "undef" THEN [h |-> h, res |-> Throw("TypeError", "undefined row")]
       ELSE LET cell == IF isArray(row) THEN At(h[row.v], i) ELSE Undef IN
            colFrom(Alloc(h, <<cell>>), data, i, r + 1, Append(acc, Ref(NewAddr(h))))

RECURSIVE columnsFrom(_, _, _, _, _)
columnsFrom(h, ms, m, i, result) ==
  IF i >= m.size[2] THEN [h |-> h, res |-> Ok(Undef), m |-> result]
  ELSE LET col == colFrom(h, h[m.data], i, 1, <<>>) IN
       IF col.res.out = "throw" THEN [h |-> h, res |-> col.res, m |-> <<>>]
       ELSE LET n == newFromArray(col.h, ms, col.res.val.v) IN
            IF n.res.out = "throw" THEN [h |-> h, res |-> n.res, m |-> <<>>]
            ELSE columnsFrom(n.h, ms, m, i + 1, result \o n.m)

columns(h, ms, m) ==
  IF Len(m.size) # 2 THEN [h |-> h, res |-> Throw("TypeError", "Rows can only be returned for a 2D matrix."), m |-> <<>>]
  ELSE LET r == columnsFrom(h, ms, m, 0, <<>>) IN
       IF r.res.out = "throw" THEN [r EXCEPT !.h = h] ELSE r


(***************************************************************************)
(* DenseMatrix.mul.  x.length of a value that is no array is undefined      *)
(* (here -1, which equals no length); x[i] of undefined throws.             *)
(***************************************************************************)
lengthOf(h, x) == IF isArray(x) THEN Len(h[x.v]) ELSE -1

\* x[i] for an x that is not undefined
elemOf(h, x, i) == IF isArray(x) THEN At(h[x.v], i) ELSE Undef

\* a product that keeps the last term of the sum only
dotLastTerm(h, a, b, i, j, k, r) ==
  mul(elemOf(h, a[i + 1], Len(b) - 1), elemOf(h, b[Len(b)], j))

RECURSIVE dot(_, _, _, _, _, _, _)
\* for (k < B) r = S.add(r, S.mul(a[i][k], b[k][j]))
dot(h, a, b, i, j, k, r) ==
  IF k >= Len(b) THEN r
  ELSE dot(h, a, b, i, j, k + 1, add(r, mul(elemOf(h, a[i + 1], k), elemOf(h, b[k + 1], j))))

mmul(h, ms, m1, m2) ==
  IF Len(m1.size) # 2 THEN [h |-> h, res |-> DimensionError(Len(m1.size), 2, "!="), m |-> <<>>]
  ELSE IF Len(m2.size) # 2 THEN [h |-> h, res |-> DimensionError(Len(m2.size), 2, "!="), m |-> <<>>]
  ELSE LET a == h[m1.data]
           b == h[m2.data]
           A == Len(a)
       IN IF At(a, 0).k = "undef" \/ At(b, 0).k = "undef"
          THEN [h |-> h, res |-> Throw("TypeError", "length of undefined"), m |-> <<>>]
          ELSE LET B == lengthOf(h, a[1])
                   C == lengthOf(h, b[1])
               IN IF Len(b) # B THEN [h |-> h, res |-> DimensionError(Len(b), B, "!="), m |-> <<>>]
                  ELSE IF A > 0 /\ C > 0 /\
                          (m1.sa = "undefined"
                             \/ \E i \in 1..A : a[i].k = "undef"
                             \/ \E k \in 1..B : b[k].k = "undef")
                  THEN [h |-> h, res |-> Throw("TypeError", "property of undefined"), m |-> <<>>]
                  ELSE LET Cn == IF C > 0 THEN C ELSE 0
                           c == [i \in 1..A |-> [j \in 1..Cn |->
                                   dot(h, a, b, i - 1, j - 1, 0, zero(m1.sa))]]
                           h1 == h \o c
                           h2 == Alloc(h1, [i \in 1..A |-> Ref(Len(h) + i)])
                           n == newFromArray(h2, ms, Len(h2))
                       IN IF n.res.out = "throw" THEN [n EXCEPT !.h = h] ELSE n

(***************************************************************************)
(* DenseMatrix.dotDiv and DenseMatrix.dotPow: the capability gate, then map.*)
(***************************************************************************)
\* the map without the gate
ungated(h, ms, m, capability, cb) == map(h, ms, m, cb)

gated(h, ms, m, capability, cb) ==
  IF m.sa = "undefined"
  THEN [h |-> h, res |-> Throw("TypeError", "property of undefined"), m |-> <<>>, calls |-> 0]
  ELSE IF capability \notin Tags(m.sa)
  THEN [h |-> h, res |-> ArithmeticError(capability), m |-> <<>>, calls |-> 0]
  ELSE map(h, ms, m, cb)

dotDiv(h, ms, m, b) == gated(h, ms, m, "DivisionRing", Callback("dotDiv", b))

dotPow(h, ms, m, b) == gated(h, ms, m, "NormedDivisionRing", Callback("dotPow", b))


(***************************************************************************)
(* norm.  The norm kind p is 'fro', 'inf', '-inf', undefined, +Infinity,    *)
(* -Infinity or a natural number.                                           *)
(***************************************************************************)
PStr(str) == [k |-> "str", s |-> str, n |-> 0]
PNum(n) == [k |-> "num", s |-> "", n |-> n]
PUndefined == [k |-> "undef", s |-> "", n |-> 0]
PPosInfinity == [k |-> "num", s |-> "+Infinity", n |-> 0]
PNegInfinity == [k |-> "num", s |-> "-Infinity", n |-> 0]

\* the { value } sequence of DenseMatrix[Symbol.iterator]: the leaves, depth first
RECURSIVE iterate(_, _), iterateFrom(_, _, _)
iterate(h, value) == IF isArray(value) THEN iterateFrom(h, h[value.v], 1) ELSE <<value>>
iterateFrom(h, src, i) == IF i > Len(src) THEN <<>> ELSE iterate(h, src[i]) \o iterateFrom(h, src, i + 1)

\* the methods a DenseMatrix has
DenseMatrixMethods ==
  {"clone", "get", "set", "map", "forEach", "rows", "columns", "toArray", "valueOf",
   "scale", "neg", "add", "sub", "norm", "normSq", "mul", "resize", "format",
   "toString", "toJSON"}

\* A.pow(r, 1/p): the exact root where there is one, else the irrational
\* root kept symbolically
RECURSIVE rootFrom(_, _, _)
rootFrom(n, p, c) == IF IntPow(c, p) = n THEN [k |-> "num", v |-> c]
                     ELSE IF IntPow(c, p) > n THEN [k |-> "root", v |-> n]
                     ELSE rootFrom(n, p, c + 1)
root(x, p) ==
  IF IsScalar(x) /\ x.v >= 0 /\ p >= 1
  THEN [rootFrom(x.v, p, 0) EXCEPT !.k = IF @ = "num" THEN x.k ELSE @]
  ELSE NaN

\* a variant of maxNorm that compares the elements, not their norms
RECURSIVE maxElement(_, _, _)
maxElement(vals, i, r) ==
  IF i > Len(vals) THEN r ELSE maxElement(vals, i + 1, IF gt(vals[i], r) THEN vals[i] ELSE r)

\* a variant of sumPow that adds the norms themselves, whatever p is
RECURSIVE sumNorms(_, _, _, _)
sumNorms(vals, p, i, r) ==
  IF i > Len(vals) THEN r ELSE sumNorms(vals, p, i + 1, add(r, norm1(vals[i])))

RECURSIVE sumPow(_, _, _, _), maxNorm(_, _, _), minNorm(_, _, _)
sumPow(vals, p, i, r) ==
  IF i > Len(vals) THEN r ELSE sumPow(vals, p, i + 1, add(r, pow(norm1(vals[i]), Num(p))))
maxNorm(vals, i, r) ==
  IF i > Len(vals) THEN r ELSE maxNorm(vals, i + 1, IF gt(norm1(vals[i]), r) THEN norm1(vals[i]) ELSE r)
minNorm(vals, i, r) ==
  IF i > Len(vals) THEN r ELSE minNorm(vals, i + 1, IF lt(norm1(vals[i]), r) THEN norm1(vals[i]) ELSE r)

\* the capability check that opens every branch
lacks(sa, capability) ==
  IF sa = "undefined" THEN Throw("TypeError", "property of undefined")
  ELSE IF capability \notin Tags(sa) THEN ArithmeticError(capability)
  ELSE Ok(Undef)

vectorNorm(h, v, p) ==
  IF p = PPosInfinity \/ p = PStr("inf") THEN
    IF lacks(v.sa, "Real").out = "throw" THEN lacks(v.sa, "Real")
    ELSE Ok(maxNorm(iterate(h, Ref(v.data)), 1, zero(v.sa)))
  ELSE IF p = PNegInfinity \/ p = PStr("-inf") THEN
    IF lacks(v.sa, "Real").out = "throw" THEN lacks(v.sa, "Real")
    ELSE Ok(minNorm(iterate(h, Ref(v.data)), 1, zero(v.sa)))
  ELSE IF lacks(v.sa, "NormedDivisionRing").out = "throw" THEN lacks(v.sa, "NormedDivisionRing")
  ELSE IF p = PNum(0) THEN Ok([k |-> "inf", v |-> 0])
  ELSE Ok(root(sumPow(iterate(h, Ref(v.data)), p.n, 1, zero(v.sa)), p.n))

\* for (const x of list) { x.map(A.norm).reduce(A.add) ... }: list holds
\* DenseMatrix objects, so the first pass maps x and then calls reduce on the
\* DenseMatrix that map returned
sumsOver(h, ms, M, list) ==
  IF list.res.out = "throw" THEN list.res
  ELSE IF Len(list.m) = 0 THEN Ok(zero(M.sa))
  ELSE LET mapped == map(list.h, ms, list.m[1], Callback("norm", Undef)) IN
       IF mapped.res.out = "throw" THEN mapped.res
       ELSE IF "reduce" \notin DenseMatrixMethods THEN Throw("TypeError", "reduce is not a function")
       ELSE Ok(Undef)

\* a variant of matrixNorm that takes the sentinel -Infinity for '-inf', as
\* vectorNorm does
matrixNormBySentinel(h, ms, M, p) ==
  IF p = PNum(1) THEN
    IF lacks(M.sa, "Real").out = "throw" THEN lacks(M.sa, "Real")
    ELSE sumsOver(h, ms, M, columns(h, ms, M))
  ELSE IF p = PPosInfinity \/ p = PStr("inf") THEN
    IF lacks(M.sa, "Real").out = "throw" THEN lacks(M.sa, "Real")
    ELSE sumsOver(h, ms, M, rows(h, ms, M))
  ELSE IF p = PNegInfinity \/ p = PStr("-inf")
  THEN Throw("TypeError", "L^-inf norm is not defined for square matrices")
  ELSE Throw("NotImplementedError", "L^p norm for square matrices")

matrixNorm(h, ms, M, p) ==
  IF p = PNum(1) THEN
    IF lacks(M.sa, "Real").out = "throw" THEN lacks(M.sa, "Real")
    ELSE sumsOver(h, ms, M, columns(h, ms, M))
  ELSE IF p = PPosInfinity \/ p = PStr("inf") THEN
    IF lacks(M.sa, "Real").out = "throw" THEN lacks(M.sa, "Real")
    ELSE sumsOver(h, ms, M, rows(h, ms, M))
  ELSE IF p = PStr("-inf") THEN Throw("TypeError", "L^-inf norm is not defined for square matrices")
  ELSE Throw("NotImplementedError", "L^p norm for square matrices")

\* a variant of norm in which only vectors have a Frobenius norm
normOfVectors(h, ms, M, p) ==
  IF Len(M.size) = 1 THEN
    IF p = PStr("fro") \/ p = PUndefined THEN
      IF lacks(M.sa, "NormedDivisionRing").out = "throw" THEN lacks(M.sa, "NormedDivisionRing")
      ELSE Ok(root(sumPow(iterate(h, Ref(M.data)), 2, 1, zero(M.sa)), 2))
    ELSE vectorNorm(h, M, p)
  ELSE IF Len(M.size) = 2 THEN matrixNorm(h, ms, M, p)
  ELSE DimensionError(Len(M.size), 2, ">")

norm(h, ms, M, p) ==
  IF p = PStr("fro") \/ p = PUndefined THEN
    IF lacks(M.sa, "NormedDivisionRing").out = "throw" THEN lacks(M.sa, "NormedDivisionRing")
    ELSE Ok(root(sumPow(iterate(h, Ref(M.data)), 2, 1, zero(M.sa)), 2))
  ELSE IF Len(M.size) = 1 THEN vectorNorm(h, M, p)
  ELSE IF Len(M.size) = 2 THEN matrixNorm(h, ms, M, p)
  ELSE DimensionError(Len(M.size), 2, ">")


(***************************************************************************)
(* The caller's side: array literals, indices, sizes and scalars.           *)
(***************************************************************************)
Lit(children) == [k |-> "lit", v |-> children]

\* evaluating an array literal allocates its arrays, innermost first
RECURSIVE literal(_, _), literalFrom(_, _, _, _)
literal(h, lit) ==
  IF lit.k = "lit" THEN literalFrom(h, lit.v, 1, <<>>) ELSE [h |-> h, val |-> lit]
literalFrom(h, src, i, acc) ==
  IF i > Len(src) THEN [h |-> Alloc(h, acc), val |-> Ref(NewAddr(h))]
  ELSE LET c == literal(h, src[i]) IN literalFrom(c.h, src, i + 1, Append(acc, c.val))

\* homogeneous literals of rank 1, 2 and 3
Homogeneous ==
  { Lit(<<Num(1), Num(2)>>),
    Lit(<<Lit(<<Num(1), Num(2)>>), Lit(<<Num(3), Num(4)>>)>>),
    Lit(<<Lit(<<Lit(<<Num(1), Num(2)>>)>>)>>) }

\* siblings of different lengths, a leaf beside an array, no element at all
Inhomogeneous ==
  { Lit(<<Lit(<<Num(1), Num(2)>>), Lit(<<Num(3)>>)>>),
    Lit(<<Num(1), Lit(<<Num(2)>>)>>),
    Lit(<<>>) }

\* literals that embed matrices that exist already
Embedding(n) ==
  { Lit(<<Mat(i)>>) : i \in 1..n } \cup { Lit(<<Mat(i), Mat(j)>>) : i, j \in 1..n }

Indices == UNION { [1..n -> 0..(MaxDim - 1)] : n \in 1..3 }

Sizes == UNION { [1..n -> -1..MaxDim] : n \in 0..2 }

NewValue == Num(9)

Defaults == {Undef, Num(7)}

\* a valid index of m: as long as the rank, every component in range
ValidIndex(m, index) ==
  /\ Len(index) = Len(m.size)
  /\ \A x \in 1..Len(index) : index[x] >= 0 /\ index[x] < m.size[x]

(***************************************************************************)
(* The state machine: a caller holding the matrices mats[1..] and the       *)
(* arrays at the addresses arrs[1..], over one heap.  `last` records the    *)
(* last call and its outcome.                                               *)
(***************************************************************************)
Call(op, i, arg, val, copy, res, new, calls) ==
  [op |-> op, mat |-> i, arg |-> arg, val |-> val, copy |-> copy, res |-> res,
   new |-> new, calls |-> calls]

\* the indices a call's n returned matrices get
Fresh(n) == [j \in 1..n |-> Len(mats) + j]

\* every call is one step of the caller
Step == steps < MaxSteps /\ steps' = steps + 1 /\ arrs' = arrs

\* a call that returns the matrices r.m (none when it threw)
Returns(op, i, arg, val, r, calls) ==
  /\ Step
  /\ Len(mats) + Len(r.m) <= MaxMats
  /\ Len(r.h) <= MaxHeap
  /\ heap' = r.h
  /\ mats' = mats \o r.m
  /\ last' = Call(op, i, arg, val, FALSE, r.res, Fresh(Len(r.m)), calls)

Init ==
  /\ heap = <<>>
  /\ mats = <<>>
  /\ arrs = <<>>
  /\ last = Call("init", 0, <<>>, Undef, FALSE, Ok(Undef), <<>>, 0)
  /\ steps = 0

\* new DenseMatrix(lit); when the construction throws, the arrays of the literal are dropped
Construct ==
  \E lit \in Homogeneous \cup Inhomogeneous \cup Embedding(Len(mats)) :
    LET c == literal(heap, lit)
        r == newFromArray(c.h, mats, c.val.v)
    IN Returns("new", 0, <<>>, Undef, IF r.res.out = "throw" THEN [r EXCEPT !.h = heap] ELSE r, 0)

\* mats[i].clone(), which is new DenseMatrix(mats[i])
Clone ==
  \E i \in 1..Len(mats) :
    LET r == newFromMatrix(heap, mats[i])
    IN Returns("clone", i, <<>>, Undef, IF r.res.out = "throw" THEN [r EXCEPT !.h = heap] ELSE r, 0)

\* DenseMatrix.fromJSON(mats[i].toJSON())
FromJSON ==
  \E i \in 1..Len(mats) :
    LET r == fromJSON(heap, toJSON(mats[i]))
    IN Returns("fromJSON", i, <<>>, Undef, IF r.res.out = "throw" THEN [r EXCEPT !.h = heap] ELSE r, 0)

Rows ==
  \E i \in 1..Len(mats) : Returns("rows", i, <<>>, Undef, rows(heap, mats, mats[i]), 0)

Columns ==
  \E i \in 1..Len(mats) : Returns("columns", i, <<>>, Undef, columns(heap, mats, mats[i]), 0)

\* mats[i].neg(), a map
Neg ==
  \E i \in 1..Len(mats) :
    LET r == map(heap, mats, mats[i], Callback("neg", Undef))
    IN Returns("neg", i, <<>>, Undef, [h |-> r.h, res |-> r.res, m |-> r.m], r.calls)

\* mats[i].set(index, 9) for a valid index or one that is too short
Set ==
  \E i \in 1..Len(mats) : \E index \in Indices :
    /\ Len(index) < Len(mats[i].size) \/ ValidIndex(mats[i], index)
    /\ Step
    /\ LET r == set(heap, mats[i], index, NewValue) IN
       /\ heap' = r.h
       /\ mats' = mats
       /\ last' = Call("set", i, index, NewValue, FALSE, r.res, <<>>, 0)

\* mats[i].resize(size, d, copy)
Resize ==
  \E i \in 1..Len(mats) : \E size \in Sizes : \E d \in Defaults : \E copy \in BOOLEAN :
    LET r == mresize(heap, mats, i, size, d, copy) IN
    /\ Step
    /\ Len(r.ms) <= MaxMats
    /\ Len(r.h) <= MaxHeap
    /\ heap' = r.h
    /\ mats' = r.ms
    /\ last' = Call("resize", i, size, d, copy, r.res, IF r.new = 0 THEN <<>> ELSE <<r.new>>, 0)

Next == Construct \/ Clone \/ FromJSON \/ Rows \/ Columns \/ Neg \/ Set \/ Resize

Spec == Init /\ [][Next]_vars

(***************************************************************************)
(* The arithmetic operations, applied once to operands that the caller has  *)
(* constructed: a matrix from Operands and an identity matrix.              *)
(***************************************************************************)
MaxN == 2

Entries == {-1, 2}

\* the n x n literals over Entries
Square(n) ==
  { Lit([i \in 1..n |-> Lit([j \in 1..n |-> Num(f[i][j])])]) : f \in [1..n -> [1..n -> Entries]] }

Identity(n) == Lit([i \in 1..n |-> Lit([j \in 1..n |-> Num(IF i = j THEN 1 ELSE 0)])])

\* further operands: other entries, other shapes, a short row, and scalars
\* of a Ring and of a DivisionRing that are not numbers
Samples ==
  { Lit(<<Lit(<<Num(1), Num(-2)>>), Lit(<<Num(-3), Num(4)>>)>>),
    Lit(<<Lit(<<Num(0), Num(0)>>), Lit(<<Num(0), Num(5)>>)>>),
    Lit(<<Lit(<<Num(1), Num(2)>>), Lit(<<Num(3)>>)>>),
    Lit(<<Lit(<<Num(1), Num(2)>>)>>),
    Lit(<<Lit(<<Num(1)>>), Lit(<<Num(2)>>)>>),
    Lit(<<Num(3), Num(-4)>>),
    Lit(<<Lit(<<Lit(<<Num(1), Num(2)>>)>>)>>),
    Lit(<<RingEl(1), RingEl(2)>>),
    Lit(<<Lit(<<RingEl(1), RingEl(2)>>), Lit(<<RingEl(3), RingEl(4)>>)>>),
    Lit(<<DivEl(2), DivEl(-4)>>),
    Lit(<<Lit(<<DivEl(1), DivEl(2)>>), Lit(<<DivEl(3), DivEl(4)>>)>>) }

Operands == UNION { Square(n) : n \in 1..MaxN } \cup Samples

\* the scalar b of dotDiv and dotPow, of the tensor's own kind
Divisors == {-1, 1}
Exponents == {0, 2}

NormKinds ==
  { PStr("fro"), PStr("inf"), PStr("-inf"), PUndefined, PPosInfinity, PNegInfinity,
    PNum(0), PNum(1), PNum(2) }

\* new DenseMatrix(lit)
build(h, ms, lit) == LET c == literal(h, lit) IN newFromArray(c.h, ms, c.val.v)

InitArith ==
  \E lit \in Operands : \E n \in 1..MaxN :
    LET r1 == build(<<>>, <<>>, lit)
        r2 == build(r1.h, r1.m, Identity(n))
    IN /\ heap = r2.h
       /\ mats = r1.m \o r2.m
       /\ arrs = <<>>
       /\ last = Call("init", 0, <<>>, Undef, FALSE, Ok(Undef), <<>>, 0)
       /\ steps = 0

\* one call on the operands; what it returns is appended to mats
Applies(op, i, arg, val, r, calls) ==
  /\ last.op = "init"
  /\ steps' = steps + 1
  /\ arrs' = arrs
  /\ heap' = r.h
  /\ mats' = mats \o r.m
  /\ last' = Call(op, i, arg, val, FALSE, r.res, Fresh(Len(r.m)), calls)

\* mats[i].mul(mats[j])
Mul ==
  \E i \in 1..Len(mats) : \E j \in 1..Len(mats) :
    Applies("mul", i, <<j>>, Undef, mmul(heap, mats, mats[i], mats[j]), 0)

\* DenseMatrix.dotDiv(mats[i], b)
DotDiv ==
  \E i \in 1..Len(mats) : \E b \in Divisors :
    LET v == [k |-> KindOf(mats[i].sa), v |-> b]
        r == dotDiv(heap, mats, mats[i], v)
    IN Applies("dotDiv", i, <<>>, v, [h |-> r.h, res |-> r.res, m |-> r.m], r.calls)

\* DenseMatrix.dotPow(mats[i], b)
DotPow ==
  \E i \in 1..Len(mats) : \E b \in Exponents :
    LET v == [k |-> KindOf(mats[i].sa), v |-> b]
        r == dotPow(heap, mats, mats[i], v)
    IN Applies("dotPow", i, <<>>, v, [h |-> r.h, res |-> r.res, m |-> r.m], r.calls)

\* mats[i].norm(p): the matrices it builds on the way are dropped
Norm ==
  \E i \in 1..Len(mats) : \E p \in NormKinds :
    Applies("norm", i, <<>>, p, [h |-> heap, res |-> norm(heap, mats, mats[i], p), m |-> <<>>], 0)

NextArith == Mul \/ DotDiv \/ DotPow \/ Norm

SpecArith == InitArith /\ [][NextArith]_vars

(***************************************************************************)
(* utils/array: flatten, product, processSizesWildcard, _reshape, reshape.  *)
(***************************************************************************)
\* the leaves in the order forEach visits them
RECURSIVE flatFrom(_, _, _)
flatFrom(h, src, i) ==
  IF i > Len(src) THEN <<>>
  ELSE (IF isArray(src[i]) THEN flatFrom(h, h[src[i].v], 1) ELSE <<src[i]>>) \o flatFrom(h, src, i + 1)

\* a new one-dimensional array; what is not an array is returned as it is
flatten(h, array) ==
  IF ~isArray(array) THEN [h |-> h, val |-> array]
  ELSE [h |-> Alloc(h, flatFrom(h, h[array.v], 1)), val |-> Ref(NewAddr(h))]

RECURSIVE product(_)
product(array) == IF array = <<>> THEN 1 ELSE product(SubSeq(array, 1, Len(array) - 1)) * array[Len(array)]

\* sizes.indexOf(x, from), zero-based, -1 when there is none
indexOf(sizes, x, from) ==
  IF \E j \in (from + 1)..Len(sizes) : sizes[j] = x
  THEN (CHOOSE j \in (from + 1)..Len(sizes) :
          sizes[j] = x /\ \A l \in (from + 1)..(j - 1) : sizes[l] # x) - 1
  ELSE -1

WILDCARD == -1

\* the sizes with the one wildcard replaced; currentLength % newLength is
\* NaN, hence not 0, when newLength is 0
processSizesWildcard(sizes, currentLength) ==
  LET newLength == product(sizes)
      wildCardIndex == indexOf(sizes, WILDCARD, 0)
      isMoreThanOneWildcard == indexOf(sizes, WILDCARD, wildCardIndex + 1) >= 0
      hasWildcard == wildCardIndex >= 0
      canReplaceWildcard == newLength # 0 /\ currentLength % Abs(newLength) = 0
      quotient == currentLength \div Abs(newLength)
  IN IF isMoreThanOneWildcard THEN [res |-> Throw("Error", "More than one wildcard in sizes"), sizes |-> sizes]
     ELSE IF hasWildcard
     THEN IF canReplaceWildcard
          THEN [res |-> Ok(Undef),
                sizes |-> [sizes EXCEPT ![wildCardIndex + 1] = IF newLength < 0 THEN quotient ELSE -quotient]]
          ELSE [res |-> Throw("Error", "Could not replace wildcard"), sizes |-> sizes]
     ELSE [res |-> Ok(Undef), sizes |-> sizes]

\* a variant of slice that restarts every slice at the front of the array
sliceFromFront(s, start, end) == SubSeq(s, 1, Min(end - start, Len(s)))

\* Array.prototype.slice for 0 <= start <= end
slice(s, start, end) == SubSeq(s, start + 1, Min(end, Len(s)))

\* how often `for (i = 0; i < length / size; i++)` runs; reshape calls
\* _reshape only when the product of the sizes is the length, so that the
\* length is 0 whenever a size is 0 and 0 / 0 is NaN
turns(length, size) == IF size > 0 THEN (length + size - 1) \div size ELSE 0

\* from the last dimension down to the second, cut tmpArray into slices
RECURSIVE _reshape(_, _, _, _)
_reshape(h, tmpArray, sizes, sizeIndex) ==
  IF sizeIndex <= 0 THEN [h |-> h, val |-> Ref(tmpArray)]
  ELSE LET size == sizes[sizeIndex + 1]
           n == turns(Len(h[tmpArray]), size)
           h1 == h \o [i \in 1..n |-> slice(h[tmpArray], (i - 1) * size, i * size)]
           h2 == Alloc(h1, [i \in 1..n |-> Ref(Len(h) + i)])
       IN _reshape(h2, Len(h2), sizes, sizeIndex - 1)

reshape(h, array, sizes) ==
  LET flatArray == flatten(h, array)
      currentLength == Len(flatArray.h[flatArray.val.v])
  IN IF ~isArray(array) THEN [h |-> h, res |-> Throw("TypeError", "Array expected")]
     ELSE IF Len(sizes) = 0 THEN [h |-> h, res |-> DimensionError(0, currentLength, "!=")]
     ELSE LET w == processSizesWildcard(sizes, currentLength)
              newLength == product(w.sizes)
          IN IF w.res.out = "throw" THEN [h |-> h, res |-> w.res]
             ELSE IF currentLength # newLength
             THEN [h |-> h, res |-> DimensionError(newLength, currentLength, "!=")]
             ELSE LET r == _reshape(flatArray.h, flatArray.val.v, w.sizes, Len(w.sizes) - 1)
                  IN [h |-> r.h, res |-> Ok(r.val)]

(***************************************************************************)
(* reshape applied to an array of the caller, and again to the result.      *)
(***************************************************************************)
MaxRank == 3

Shapes == UNION { [1..n -> -1..MaxDim] : n \in 0..MaxRank }

\* arrays of 0, 1, 2, 3, 4, 6 and 8 elements
Arrays ==
  { Lit(<<>>),
    Lit(<<Num(1)>>),
    Lit(<<Num(1), Num(2)>>),
    Lit(<<Lit(<<Num(1), Num(2)>>), Lit(<<Num(3)>>)>>),
    Lit(<<Lit(<<Num(1), Num(2)>>), Lit(<<Num(3), Num(4)>>)>>),
    Lit(<<Num(1), Num(2), Num(3), Num(4)>>),
    Lit(<<Lit(<<Num(1), Num(2), Num(3)>>), Lit(<<Num(4), Num(5), Num(6)>>)>>),
    Lit(<<Lit(<<Lit(<<Num(1), Num(2)>>), Lit(<<Num(3), Num(4)>>)>>),
          Lit(<<Lit(<<Num(5), Num(6)>>), Lit(<<Num(7), Num(8)>>)>>)>>) }

InitReshape ==
  \E lit \in Arrays :
    LET c == literal(<<>>, lit) IN
    /\ heap = c.h
    /\ mats = <<>>
    /\ arrs = <<c.val.v>>
    /\ last = Call("init", 0, <<>>, Undef, FALSE, Ok(Undef), <<>>, 0)
    /\ steps = 0

\* reshape(arrs[Len(arrs)], sizes); last.arg holds the sizes of every
\* reshape so far
Reshaped(op, sizes) ==
  LET r == reshape(heap, Ref(arrs[Len(arrs)]), sizes) IN
  /\ steps' = steps + 1
  /\ mats' = mats
  /\ heap' = r.h
  /\ arrs' = IF r.res.out = "ok" THEN Append(arrs, r.res.val.v) ELSE arrs
  /\ last' = Call(op, 0, Append(last.arg, sizes), Undef, FALSE, r.res, <<>>, 0)

\* r = reshape(array, newShape)
Reshape == last.op = "init" /\ \E newShape \in Shapes : Reshaped("reshape", newShape)

\* reshape(r, oldShape)
ReshapeBack ==
  last.op = "reshape" /\ last.res.out = "ok" /\ \E oldShape \in Shapes : Reshaped("reshapeBack", oldShape)

NextReshape == Reshape \/ ReshapeBack

SpecReshape == InitReshape /\ [][NextReshape]_vars

(***************************************************************************)
(* Properties of get, set, construction, copies and resize (under Spec).   *)
(***************************************************************************)
ValidIndices(m) == { index \in Indices : ValidIndex(m, index) }

\* the arrays reachable from the array at address a
RECURSIVE Reachable(_, _), ReachableFrom(_, _, _)
Reachable(h, a) == {a} \cup ReachableFrom(h, h[a], 1)
ReachableFrom(h, src, i) ==
  IF i > Len(src) THEN {}
  ELSE (IF isArray(src[i]) THEN Reachable(h, src[i].v) ELSE {}) \cup ReachableFrom(h, src, i + 1)

C2_NoSharedStorage ==
  [][ last'.op = "set" =>
        \A k \in 1..Len(mats) : k # last'.mat =>
          \A j \in ValidIndices(mats[k]) :
            getAt(heap', mats'[k], j) = getAt(heap, mats[k], j) ]_vars

\* a set on one matrix is read back through another that shares an array
C2_WrittenThroughSharedArray ==
  /\ last.op = "set"
  /\ last.res.out = "ok"
  /\ \E k \in 1..Len(mats) :
       /\ k # last.mat
       /\ Reachable(heap, mats[k].data) \cap Reachable(heap, mats[last.mat].data) # {}
       /\ \E j \in ValidIndices(mats[k]) : getAt(heap, mats[k], j) = Ok(last.val)

\* C3: a resize or a set that throws leaves the tensor's size and the result
\* of get at every valid index as they were before the call.
C3_FailedCallLeavesState ==
  [][ (last'.op \in {"resize", "set"} /\ last'.res.out = "throw") =>
        /\ mats'[last'.mat].size = mats[last'.mat].size
        /\ \A j \in ValidIndices(mats[last'.mat]) :
             getAt(heap', mats'[last'.mat], j) = getAt(heap, mats[last'.mat], j) ]_vars

\* a rejected in-place resize has left its size argument in the tensor
C3_RejectedSizeKept ==
  /\ last.op = "resize"
  /\ last.res.out = "throw"
  /\ ~last.copy
  /\ mats[last.mat].size = last.arg
  /\ validate(heap, Ref(mats[last.mat].data), mats[last.mat].size).out = "throw"

\* C4: a DenseMatrix constructed from a nested array is homogeneous: the
\* construction of an array whose siblings differ in length (or that mixes
\* leaves and arrays at one depth) throws, so a constructed tensor's data
\* validates against its size.
C4_ConstructionHomogeneous ==
  (last.op = "new" /\ last.res.out = "ok") =>
    validate(heap, Ref(mats[last.new[1]].data), mats[last.new[1]].size).out = "ok"

\* a construction has returned a tensor whose data does not fit its size
C4_InhomogeneousConstructed ==
  /\ last.op = "new"
  /\ last.res.out = "ok"
  /\ validate(heap, Ref(mats[last.new[1]].data), mats[last.new[1]].size).out = "throw"

\* C5: for a tensor t of rank 1 to 3 whose leaves are numbers,
\* DenseMatrix.fromJSON(t.toJSON()) returns a tensor of t's size that equals
\* t at every valid index.
C5_JSONRoundTrip ==
  (/\ last.op = "fromJSON"
   /\ Len(mats[last.mat].size) \in 1..3
   /\ \A x \in 1..Len(iterate(heap, Ref(mats[last.mat].data))) :
        iterate(heap, Ref(mats[last.mat].data))[x].k = "num") =>
    /\ last.res.out = "ok"
    /\ mats[last.new[1]].size = mats[last.mat].size
    /\ \A j \in ValidIndices(mats[last.mat]) :
         getAt(heap, mats[last.new[1]], j) = getAt(heap, mats[last.mat], j)

\* the round trip of a vector without elements has thrown
C5_EmptyVectorRoundTripThrows ==
  /\ last.op = "fromJSON"
  /\ last.res.out = "throw"
  /\ mats[last.mat].size = <<0>>
  /\ heap[mats[last.mat].data] = <<>>

\* C7: t.resize(t.size, d), in place or to a copy, returns a tensor of the
\* size t had and with the element t had at every valid index; no element is
\* replaced by d.
C7_ResizeSameShape ==
  [][ (last'.op = "resize" /\ last'.arg = mats[last'.mat].size) =>
        /\ last'.res.out = "ok"
        /\ LET r == IF last'.copy THEN mats'[last'.new[1]] ELSE mats'[last'.mat] IN
           /\ r.size = mats[last'.mat].size
           /\ \A j \in ValidIndices(mats[last'.mat]) :
                getAt(heap', r, j) = getAt(heap, mats[last'.mat], j) ]_vars

\* an in-place resize to [2, 2] has put d beside the 3 of a one-element row
C7_ShortRowFilled ==
  /\ last.op = "resize"
  /\ last.res.out = "ok"
  /\ ~last.copy
  /\ last.arg = <<2, 2>>
  /\ last.val = Num(7)
  /\ LET m == mats[last.mat] IN
     /\ getAt(heap, m, <<0, 1>>) = Ok(Num(2))
     /\ getAt(heap, m, <<1, 0>>) = Ok(Num(3))
     /\ getAt(heap, m, <<1, 1>>) = Ok(Num(7))

(***************************************************************************)
(* Properties of norm, mul, dotDiv and dotPow (under SpecArith).            *)
(***************************************************************************)
\* every index within a size
IndicesOf(size) ==
  { index \in [1..Len(size) -> 0..MaxN] : \A x \in 1..Len(size) : index[x] < size[x] }

\* a rank-2 tensor that holds a number at every index within its size
NumericMatrix(h, m) ==
  /\ Len(m.size) = 2
  /\ m.size[1] >= 1
  /\ m.size[2] >= 1
  /\ \A index \in IndicesOf(m.size) : getAt(h, m, index).out = "ok" /\ getAt(h, m, index).val.k = "num"

RECURSIVE SeqSum(_)
SeqSum(s) == IF s = <<>> THEN 0 ELSE Head(s) + SeqSum(Tail(s))

MaxOf(S) == CHOOSE x \in S : \A y \in S : y <= x

ColumnSum(h, m, j) == SeqSum([i \in 1..m.size[1] |-> Abs(getAt(h, m, <<i - 1, j>>).val.v)])
RowSum(h, m, i) == SeqSum([j \in 1..m.size[2] |-> Abs(getAt(h, m, <<i, j - 1>>).val.v)])

\* C6: for a rank-2 numeric tensor M, M.norm(1) returns the largest column
\* sum of absolute values and M.norm('inf') the largest row sum of absolute
\* values (6 and 7 for [[1,-2],[-3,4]]).
C6_MatrixNorms ==
  (last.op = "norm" /\ NumericMatrix(heap, mats[last.mat])) =>
    /\ last.val = PNum(1) =>
         last.res = Ok(Num(MaxOf({ ColumnSum(heap, mats[last.mat], j) : j \in 0..(mats[last.mat].size[2] - 1) })))
    /\ last.val = PStr("inf") =>
         last.res = Ok(Num(MaxOf({ RowSum(heap, mats[last.mat], i) : i \in 0..(mats[last.mat].size[1] - 1) })))

\* norm(1) of [[1,-2],[-3,4]] has thrown a TypeError
C6_ExampleNormThrows ==
  /\ last.op = "norm"
  /\ last.val = PNum(1)
  /\ last.res.out = "throw"
  /\ last.res.err = "TypeError"
  /\ mats[last.mat].size = <<2, 2>>
  /\ getAt(heap, mats[last.mat], <<0, 0>>) = Ok(Num(1))
  /\ getAt(heap, mats[last.mat], <<0, 1>>) = Ok(Num(-2))
  /\ getAt(heap, mats[last.mat], <<1, 0>>) = Ok(Num(-3))
  /\ getAt(heap, mats[last.mat], <<1, 1>>) = Ok(Num(4))

\* the n x n identity matrix
IsIdentity(h, m) ==
  /\ NumericMatrix(h, m)
  /\ m.size[1] = m.size[2]
  /\ \A index \in IndicesOf(m.size) :
       getAt(h, m, index) = Ok(Num(IF index[1] = index[2] THEN 1 ELSE 0))

\* C9: for a square numeric matrix M of size n x n (n >= 1) and the n x n
\* identity I, M.mul(I) has size [n, n] and equals M at every index, and the
\* call changes neither M nor I.
C9_MulIdentity ==
  [][ (/\ last'.op = "mul"
       /\ NumericMatrix(heap, mats[last'.mat])
       /\ mats[last'.mat].size[1] = mats[last'.mat].size[2]
       /\ IsIdentity(heap, mats[last'.arg[1]])
       /\ mats[last'.arg[1]].size = mats[last'.mat].size) =>
        /\ last'.res.out = "ok"
        /\ mats'[last'.new[1]].size = mats[last'.mat].size
        /\ \A index \in IndicesOf(mats[last'.mat].size) :
             getAt(heap', mats'[last'.new[1]], index) = getAt(heap, mats[last'.mat], index)
        /\ \A k \in 1..Len(mats) : mats'[k] = mats[k]
        /\ \A a \in 1..Len(heap) : heap'[a] = heap[a] ]_vars

\* a 2 x 2 matrix with a nonzero entry off the diagonal has been multiplied
\* by the 2 x 2 identity
C9_MultipliedByIdentity ==
  /\ last.op = "mul"
  /\ last.res.out = "ok"
  /\ last.mat # last.arg[1]
  /\ mats[last.mat].size = <<2, 2>>
  /\ NumericMatrix(heap, mats[last.mat])
  /\ IsIdentity(heap, mats[last.arg[1]])
  /\ mats[last.arg[1]].size = <<2, 2>>
  /\ getAt(heap, mats[last.mat], <<0, 1>>) = Ok(Num(2))
  /\ getAt(heap, mats[last.new[1]], <<0, 1>>) = Ok(Num(2))

\* C10: dotDiv on a tensor whose scalar arithmetic lacks the DivisionRing
\* tag, and dotPow on one that lacks the NormedDivisionRing tag, throws an
\* ArithmeticError that names the capability, calls no element callback and
\* leaves the tensor's size and elements as they were.
C10_CapabilityGate ==
  [][ \A gate \in { <<"dotDiv", "DivisionRing">>, <<"dotPow", "NormedDivisionRing">> } :
        (/\ last'.op = gate[1]
         /\ mats[last'.mat].sa # "undefined"
         /\ gate[2] \notin Tags(mats[last'.mat].sa)) =>
          /\ last'.res = ArithmeticError(gate[2])
          /\ last'.calls = 0
          /\ mats'[last'.mat] = mats[last'.mat]
          /\ iterate(heap', Ref(mats'[last'.mat].data)) = iterate(heap, Ref(mats[last'.mat].data))
          /\ arraySize(heap', Ref(mats'[last'.mat].data)) = arraySize(heap, Ref(mats[last'.mat].data)) ]_vars

\* dotDiv has been refused on a tensor over a Ring and dotPow is refused on
\* one over a DivisionRing
C10_GateRefused ==
  /\ last.op \in {"dotDiv", "dotPow"}
  /\ last.res.out = "throw"
  /\ last.res.err = "ArithmeticError"
  /\ last.calls = 0
  /\ \/ last.op = "dotDiv" /\ mats[last.mat].sa = "Ring" /\ last.res.info = "DivisionRing"
     \/ last.op = "dotPow" /\ mats[last.mat].sa = "DivisionRing" /\ last.res.info = "NormedDivisionRing"

(***************************************************************************)
(* Properties of reshape (under SpecReshape).                               *)
(***************************************************************************)
\* the number of elements of the caller's array
Count == Len(flatFrom(heap, heap[arrs[1]], 1))

\* the second reshape returned the elements of the caller's array in their
\* order, in an array of the shape asked for
Recovered ==
  /\ last.res.out = "ok"
  /\ flatFrom(heap, heap[arrs[3]], 1) = flatFrom(heap, heap[arrs[1]], 1)
  /\ arraySize(heap, Ref(arrs[3])) = last.arg[2]

Positive(shape) == Len(shape) >= 1 /\ \A x \in 1..Len(shape) : shape[x] >= 1

IndexComponents == { Num(n) : n \in -1..MaxDim } \cup { Frac(0), Undef }

TypedIndices == UNION { [1..n -> IndexComponents] : n \in 0..3 }

\* new DenseMatrix(lit) and then, when resized, its resize(size, d) in place
Prepare(lit, size, d, resized) ==
  LET r1 == build(<<>>, <<>>, lit)
      r2 == mresize(r1.h, r1.m, 1, size, d, FALSE)
  IN IF resized THEN [h |-> r2.h, ms |-> r2.ms] ELSE [h |-> r1.h, ms |-> r1.m]

\* the literals from which a tensor is constructed
Constructible ==
  { lit \in Homogeneous \cup Inhomogeneous : build(<<>>, <<>>, lit).res.out = "ok" }

InitGet ==
  \E lit \in Constructible :
    \E size \in Sizes : \E d \in Defaults : \E resized \in BOOLEAN :
      /\ heap = Prepare(lit, size, d, resized).h
      /\ mats = Prepare(lit, size, d, resized).ms
      /\ arrs = <<>>
      /\ last = Call("init", 0, <<>>, Undef, FALSE, Ok(Undef), <<>>, 0)
      /\ steps = 0

\* mats[i].get(index)
Get ==
  \E i \in 1..Len(mats) : \E index \in TypedIndices :
    Applies("get", i, index, Undef, [h |-> heap, res |-> get(heap, mats[i], index), m |-> <<>>], 0)

NextGet == Get

SpecGet == InitGet /\ [][NextGet]_vars

(***************************************************************************)
(* Properties of get (under SpecGet).                                       *)
(***************************************************************************)
\* component x of the index is an integer
IsInt(index, x) == index[x].k = "num"

\* component x of the index is an integer within 0 .. size[x] - 1
InRange(index, size, x) == IsInt(index, x) /\ 0 <= index[x].v /\ index[x].v < size[x]

\* what C11 says of the components of an index as long as the rank, and of
\* a get that returns
GetComponents ==
  LET m == mats[last.mat]
      index == last.arg
      X == 1..Len(index)
  IN /\ (Len(index) = Len(m.size) /\ \E x \in X : ~InRange(index, m.size, x)) =>
          /\ last.res.out = "throw"
          /\ last.res.err \in {"IndexError", "TypeError"}
          /\ last.res.err = "IndexError" => \E x \in X : IsInt(index, x) /\ ~InRange(index, m.size, x)
          /\ last.res.err = "TypeError" => \E x \in X : ~IsInt(index, x)
     /\ last.res.out = "ok" =>
          /\ Len(index) = Len(m.size)
          /\ \A x \in X : InRange(index, m.size, x)
          /\ ~isArray(last.res.val)

\* C11 as stated: get(index) on a tensor of rank r and size s fails with a
\* dimension mismatch when index.length # r, which reports the rank and then
\* the length of the index (1 != 2 for get([0,0]) on a vector); it fails
\* with an out-of-range condition when a component is negative or >= s[i],
\* with a type condition when a component is not an integer, and returns a
\* scalar only when every component i has 0 <= index[i] < s[i].
C11_GetReportsRankFirst ==
  last.op = "get" =>
    /\ Len(last.arg) # Len(mats[last.mat].size) =>
         last.res = DimensionError(Len(mats[last.mat].size), Len(last.arg), "!=")
    /\ GetComponents

\* C11, amended: the same, but the dimension mismatch reports the length of
\* the index and then the rank (2 != 1 for get([0,0]) on a vector).
C11_GetValidation ==
  last.op = "get" =>
    /\ Len(last.arg) # Len(mats[last.mat].size) =>
         last.res = DimensionError(Len(last.arg), Len(mats[last.mat].size), "!=")
    /\ GetComponents

\* get([0,0]) on a vector of length 2 has thrown its dimension mismatch
C11_VectorGetAtPair ==
  /\ last.op = "get"
  /\ mats[last.mat].size = <<2>>
  /\ last.arg = <<Num(0), Num(0)>>
  /\ last.res.err = "DimensionError"
  /\ last.res.actual = 2
  /\ last.res.expected = 1

(***************************************************************************)
(* map, forEach, scale and neg, called up to MaxCalls times on a matrix     *)
(* that the caller has constructed from a literal and, possibly, resized in *)
(* place, and on the matrices those calls return.                           *)
(***************************************************************************)
MaxCalls == 2

\* homogeneous literals over numbers and over elements of other algebras
Valid ==
  Homogeneous \cup
  { Lit(<<Num(3), Num(-4)>>),
    Lit(<<RingEl(1), RingEl(2)>>),
    Lit(<<Lit(<<DivEl(1)>>), Lit(<<DivEl(2)>>)>>) }

\* the callbacks handed to map and forEach: x => x and x => 0
Callbacks == { Callback("id", Undef), Callback("const", Num(0)) }

Factors == {0, 2}

InitMap ==
  \E lit \in Valid \cup Constructible :
    \E size \in Sizes : \E d \in Defaults : \E resized \in BOOLEAN :
      /\ heap = Prepare(lit, size, d, resized).h
      /\ mats = Prepare(lit, size, d, resized).ms
      /\ arrs = <<>>
      /\ last = Call("init", 0, <<>>, Undef, FALSE, Ok(Undef), <<>>, 0)
      /\ steps = 0

\* a call on mats[i] that returns the matrices r.m
Mapped(op, i, cb, r) ==
  /\ steps < MaxCalls
  /\ steps' = steps + 1
  /\ arrs' = arrs
  /\ heap' = r.h
  /\ mats' = mats \o r.m
  /\ last' = Call(op, i, <<>>, cb, FALSE, r.res, Fresh(Len(r.m)), r.calls)

\* mats[i].map(callback)
Map == \E i \in 1..Len(mats) : \E cb \in Callbacks : Mapped("map", i, cb, map(heap, mats, mats[i], cb))

\* mats[i].forEach(callback)
ForEach ==
  \E i \in 1..Len(mats) : \E cb \in Callbacks :
    LET r == forEach(heap, mats[i], cb)
    IN Mapped("forEach", i, cb, [h |-> heap, res |-> r.res, m |-> <<>>, calls |-> r.calls])

\* mats[i].scale(s) for a scalar s of the matrix's algebra
Scale ==
  \E i \in 1..Len(mats) : \E s \in Factors :
    LET cb == Callback("scale", [k |-> KindOf(mats[i].sa), v |-> s])
    IN Mapped("scale", i, cb, map(heap, mats, mats[i], cb))

\* mats[i].neg()
Negate ==
  \E i \in 1..Len(mats) :
    Mapped("neg", i, Callback("neg", Undef), map(heap, mats, mats[i], Callback("neg", Undef)))

NextMap == Map \/ ForEach \/ Scale \/ Negate

SpecMap == InitMap /\ [][NextMap]_vars

(***************************************************************************)
(* Properties of map, forEach, scale and neg (under SpecMap).               *)
(***************************************************************************)
\* the tensor t is as the constructor leaves it for homogeneous data: its
\* data validates against its size and has a first leaf
AsConstructed(h, t) ==
  /\ Len(t.size) >= 1
  /\ validate(h, Ref(t.data), t.size).out = "ok"
  /\ firstLeaf(h, Ref(t.data)).k # "undef"

MaxWrites == 2

\* the sizes of a resize of t made before it is copied
Earlier == { <<0>>, <<-1>>, <<1, 2>> }

\* t = new DenseMatrix([A, A]) for A = new DenseMatrix(lit)
Twice(lit) ==
  LET r1 == build(<<>>, <<>>, lit)
      r2 == build(r1.h, r1.m, Lit(<<Mat(1), Mat(1)>>))
  IN [h |-> r2.h, ms |-> r2.m]

InitCopy ==
  \E lit \in Constructible :
    \E p \in { Prepare(lit, <<>>, Undef, FALSE), Twice(lit) }
             \cup { Prepare(lit, size, Num(7), TRUE) : size \in Earlier } :
      /\ heap = p.h
      /\ mats = p.ms
      /\ arrs = <<>>
      /\ last = Call("init", 0, <<>>, Undef, FALSE, Ok(Undef), <<>>, 0)
      /\ steps = 0

\* c = t.clone() or c = new DenseMatrix(t), which is what clone calls
Copy ==
  \E op \in {"clone", "copy"} :
    LET r == newFromMatrix(heap, mats[1])
    IN Applies(op, 1, <<>>, Undef, IF r.res.out = "throw" THEN [r EXCEPT !.h = heap] ELSE r, 0)

\* a call on t or c after the copy was made
Written(op, i, arg, val, r) ==
  /\ Len(mats) = 2
  /\ steps <= MaxWrites
  /\ steps' = steps + 1
  /\ arrs' = arrs
  /\ heap' = r.h
  /\ mats' = r.ms
  /\ last' = Call(op, i, arg, val, FALSE, r.res, <<>>, 0)

\* mats[i].set(index, 9) for a valid index or one that is too short
SetEither ==
  \E i \in 1..Len(mats) : \E index \in Indices :
    /\ Len(index) < Len(mats[i].size) \/ ValidIndex(mats[i], index)
    /\ Written("set", i, index, NewValue,
               [h |-> set(heap, mats[i], index, NewValue).h, ms |-> mats,
                res |-> set(heap, mats[i], index, NewValue).res])

\* the sizes of a resize made after the copy: accepted ones of rank 1 and 2,
\* and rejected ones
Later == Earlier \cup { <<2>> }

\* mats[i].resize(size, 7) in place
ResizeEither ==
  \E i \in 1..Len(mats) : \E size \in Later :
    Written("resize", i, size, Num(7), mresize(heap, mats, i, size, Num(7), FALSE))

NextCopy == Copy \/ SetEither \/ ResizeEither

SpecCopy == InitCopy /\ [][NextCopy]_vars

(***************************************************************************)
(* Properties of copies (under SpecCopy).                                   *)
(***************************************************************************)
\* matrix a in heap ha and matrix b in heap hb have the same size, data of
\* the same shape, the same leaves in the same order and the same result of
\* get at every index that is valid for the size
Same(ha, a, hb, b) ==
  /\ a.size = b.size
  /\ arraySize(ha, Ref(a.data)) = arraySize(hb, Ref(b.data))
  /\ iterate(ha, Ref(a.data)) = iterate(hb, Ref(b.data))
  /\ \A j \in ValidIndices(a) : getAt(ha, a, j) = getAt(hb, b, j)

\* C13: a tensor c produced by new DenseMatrix(t) or t.clone() has t's size
\* and t's element at every index, and every later set or resize on t or c
\* leaves the size and the elements of the other as they were.
C13_CopyIndependence ==
  [][ /\ (last'.op \in {"clone", "copy"} /\ last'.res.out = "ok") =>
           /\ Same(heap', mats'[2], heap, mats[1])
           /\ Same(heap', mats'[1], heap, mats[1])
      /\ last'.op \in {"set", "resize"} =>
           Same(heap', mats'[3 - last'.mat], heap, mats[3 - last'.mat]) ]_vars

\* after the copy of a 2 x 2 tensor, a set on the original and then a set on
\* the copy have returned, and the two tensors differ at both indices
C13_BothWritten ==
  /\ last.op = "set"
  /\ last.mat = 2
  /\ last.res.out = "ok"
  /\ steps = 3
  /\ mats[1].size = <<2, 2>>
  /\ getAt(heap, mats[2], last.arg) = Ok(NewValue)
  /\ getAt(heap, mats[1], last.arg) # Ok(NewValue)
  /\ \E j \in ValidIndices(mats[1]) : getAt(heap, mats[1], j) = Ok(NewValue)

(***************************************************************************)
(* Properties of resize and its copy flag (under Spec).                     *)
(***************************************************************************)
\* a size that utils/array resize accepts: at least one dimension, none negative
Accepted(size) == Len(size) >= 1 /\ \A x \in 1..Len(size) : size[x] >= 0

\* C14: t.resize(size, d, true) returns a new tensor of the requested size
\* and leaves t's size and every element of t as they were; t.resize(size, d)
\* (copy false) returns t itself, and afterwards t.size is the requested
\* size.  The sizes are those that resize accepts.
C14_ResizeCopyFlag ==
  [][ (last'.op = "resize" /\ Accepted(last'.arg)) =>
        /\ last'.res.out = "ok"
        /\ last'.copy =>
             /\ last'.new = <<Len(mats) + 1>>
             /\ mats'[Len(mats) + 1].size = last'.arg
             /\ Same(heap', mats'[last'.mat], heap, mats[last'.mat])
        /\ ~last'.copy =>
             /\ last'.new = <<last'.mat>>
             /\ Len(mats') = Len(mats)
             /\ mats'[last'.mat].size = last'.arg ]_vars

\* a resize to a copy, of a tensor that was resized to no elements before,
\* has thrown a TypeError for a size that resize accepts
C14_CopyOfEmptyThrows ==
  /\ last.op = "resize"
  /\ last.copy
  /\ last.arg = <<2>>
  /\ mats[last.mat].size = <<0>>
  /\ last.res.out = "throw"
  /\ last.res.err = "TypeError"

(***************************************************************************)
(* toArray and valueOf: the caller takes the array that one of them returns *)
(* for a matrix constructed (from a literal, or from a literal that embeds  *)
(* one matrix twice) and possibly resized in place, and assigns to one      *)
(* element of it, at any depth.  arrs[1] is the array returned.             *)
(***************************************************************************)
\* the array that holds the element at path, from component i on; undefined
\* when the path leaves the arrays or their lengths
RECURSIVE holder(_, _, _, _)
holder(h, x, path, i) ==
  IF ~isArray(x) THEN Undef
  ELSE IF path[i] >= Len(h[x.v]) THEN Undef
  ELSE IF i = Len(path) THEN x
  ELSE holder(h, At(h[x.v], path[i]), path, i + 1)

\* a[path[1]]...[path[n]] = v
assign(h, a, path, v) == [h EXCEPT ![holder(h, Ref(a), path, 1).v] = Put(@, path[Len(path)], v)]

InitArray ==
  \E lit \in Constructible :
    \E p \in { Twice(lit) } \cup
             { Prepare(lit, size, d, resized) : size \in Sizes, d \in Defaults, resized \in BOOLEAN } :
      /\ heap = p.h
      /\ mats = p.ms
      /\ arrs = <<>>
      /\ last = Call("init", 0, <<>>, Undef, FALSE, Ok(Undef), <<>>, 0)
      /\ steps = 0

\* a = mats[1].toArray()
ToArray ==
  /\ last.op = "init"
  /\ steps' = steps + 1
  /\ heap' = toArray(heap, mats[1]).h
  /\ arrs' = <<toArray(heap, mats[1]).val.v>>
  /\ mats' = mats
  /\ last' = Call("toArray", 1, <<>>, Undef, TRUE, Ok(toArray(heap, mats[1]).val), <<>>, 0)

\* a = mats[1].valueOf()
ValueOf ==
  /\ last.op = "init"
  /\ steps' = steps + 1
  /\ heap' = heap
  /\ arrs' = <<valueOf(mats[1])>>
  /\ mats' = mats
  /\ last' = Call("valueOf", 1, <<>>, Undef, FALSE, Ok(Ref(valueOf(mats[1]))), <<>>, 0)

\* a[path[1]]...[path[n]] = 9 for an element that a has, a leaf or an array
Assign ==
  \E path \in Indices :
    /\ last.op \in {"toArray", "valueOf"}
    /\ isArray(holder(heap, Ref(arrs[1]), path, 1))
    /\ steps' = steps + 1
    /\ heap' = assign(heap, arrs[1], path, NewValue)
    /\ arrs' = arrs
    /\ mats' = mats
    /\ last' = Call("assign", 1, path, NewValue, last.copy, Ok(Undef), <<>>, 0)

NextArray == ToArray \/ ValueOf \/ Assign

SpecArray == InitArray /\ [][NextArray]_vars

(***************************************************************************)
(* Properties of toArray and valueOf (under SpecArray).                     *)
(***************************************************************************)
\* the element of the array at address a at path
RECURSIVE elementAt(_, _, _, _)
elementAt(h, x, path, i) ==
  IF i > Len(path) THEN x
  ELSE IF ~isArray(x) THEN Undef
  ELSE elementAt(h, At(h[x.v], path[i]), path, i + 1)

\* C15: an assignment to the array returned by t.toArray(), at any depth,
\* changes no result of t.get; an assignment to a leaf of the array returned
\* by t.valueOf() is what the next t.get at the same index returns.
C15_ToArrayVersusValueOf ==
  [][ last'.op = "assign" =>
        /\ last'.copy =>
             /\ mats'[1] = mats[1]
             /\ \A j \in Indices : getAt(heap', mats'[1], j) = getAt(heap, mats[1], j)
        /\ (~last'.copy /\ ~isArray(elementAt(heap, Ref(arrs[1]), last'.arg, 1))) =>
             getAt(heap', mats'[1], last'.arg) = Ok(last'.val) ]_vars

\* a leaf written through the array that valueOf returned is out of range
\* for get, because of the size that a rejected resize has left
C15_WrittenLeafOutOfRange ==
  /\ last.op = "assign"
  /\ ~last.copy
  /\ last.arg = <<0>>
  /\ heap[mats[1].data] = <<NewValue, Num(2)>>
  /\ mats[1].size = <<-1>>
  /\ getAt(heap, mats[1], last.arg).err = "IndexError"

(***************************************************************************)
(* Properties of rows and columns (under Spec).                             *)
(***************************************************************************)
\* C16: rows() and columns() on a tensor whose rank is not 2 throw a
\* TypeError and return nothing; on a rank-2 tensor of size [R, C] rows()
\* returns R tensors of size [1, C] and columns() returns C tensors of size
\* [R, 1].
C16_RowsAndColumns ==
  (last.op \in {"rows", "columns"} /\ Accepted(mats[last.mat].size)) =>
    LET size == mats[last.mat].size IN
    IF Len(size) # 2
    THEN last.res.out = "throw" /\ last.res.err = "TypeError" /\ last.new = <<>>
    ELSE /\ last.res.out = "ok"
         /\ last.op = "rows" =>
              /\ Len(last.new) = size[1]
              /\ \A k \in 1..Len(last.new) : mats[last.new[k]].size = <<1, size[2]>>
         /\ last.op = "columns" =>
              /\ Len(last.new) = size[2]
              /\ \A k \in 1..Len(last.new) : mats[last.new[k]].size = <<size[1], 1>>

\* rows() has thrown a TypeError on a rank-2 tensor of size [2, 0]
C16_RowsOfEmptyRowsThrows ==
  /\ last.op = "rows"
  /\ mats[last.mat].size = <<2, 0>>
  /\ validate(heap, Ref(mats[last.mat].data), <<2, 0>>).out = "ok"
  /\ last.res.out = "throw"
  /\ last.res.err = "TypeError"
  /\ last.new = <<>>

(***************************************************************************)
(* norm, called once on a tensor of rank 1, 2 or 3 over numbers or over the *)
(* elements of another algebra, that the caller has constructed and,        *)
(* possibly, resized in place.                                              *)
(***************************************************************************)
MaxLen == 2

Elements == {-4, 0, 3}

\* the vector literals of 1 to MaxLen elements of one kind
Vectors(kind) ==
  UNION { { Lit([i \in 1..n |-> [k |-> kind, v |-> e[i]]]) : e \in [1..n -> Elements] } : n \in 1..MaxLen }

\* the literals [v], [v, v] and [[v]] for a vector literal v
Stacked(kind) ==
  UNION { { Lit(<<v>>), Lit(<<v, v>>), Lit(<<Lit(<<v>>)>>) } : v \in Vectors(kind) }

Kinds == {"num", "ring", "div", "normed"}

\* the tensor is resized with a default value of its own algebra
InitNorm ==
  \E kind \in Kinds : \E lit \in Vectors(kind) \cup Stacked(kind) :
    \E p \in { Prepare(lit, <<>>, Undef, FALSE) }
             \cup { Prepare(lit, size, [k |-> kind, v |-> 7], TRUE) : size \in Earlier } :
      /\ heap = p.h
      /\ mats = p.ms
      /\ arrs = <<>>
      /\ last = Call("init", 0, <<>>, Undef, FALSE, Ok(Undef), <<>>, 0)
      /\ steps = 0

NextNorm == Norm

SpecNorm == InitNorm /\ [][NextNorm]_vars

(***************************************************************************)
(* Properties of norm on vectors and of the Frobenius norm (under SpecNorm).*)
(***************************************************************************)
\* the absolute values of the leaves of the receiver of the last call
Norms == LET vals == iterate(heap, Ref(mats[last.mat].data)) IN [i \in 1..Len(vals) |-> Abs(vals[i].v)]

\* C17: on a rank-1 tensor over an algebra with the Real tag, norm('inf')
\* and norm(+Infinity) return the largest norm(element) over all elements
\* (zero when there is none); over an algebra without the Real tag they
\* throw an ArithmeticError that names Real.
C17_VectorInfinityNorm ==
  (/\ last.op = "norm"
   /\ last.val \in {PStr("inf"), PPosInfinity}
   /\ Len(mats[last.mat].size) = 1) =>
    IF "Real" \in Tags(mats[last.mat].sa)
    THEN last.res = Ok(Num(MaxOf({0} \cup { Norms[i] : i \in 1..Len(Norms) })))
    ELSE last.res = ArithmeticError("Real")

\* norm('inf') of the vector [3, -4] has returned 4
C17_ExampleInfinityNorm ==
  /\ last.op = "norm"
  /\ last.val = PStr("inf")
  /\ mats[last.mat].size = <<2>>
  /\ heap[mats[last.mat].data] = <<Num(3), Num(-4)>>
  /\ last.res = Ok(Num(4))

\* the p-th root of the natural number S as a scalar of the receiver's
\* algebra, or the irrational root kept symbolically
RootOf(S, p) ==
  IF \E c \in 0..S : IntPow(c, p) = S
  THEN [k |-> KindOf(mats[last.mat].sa), v |-> CHOOSE c \in 0..S : IntPow(c, p) = S]
  ELSE [k |-> "root", v |-> S]

\* the sum of norm(element)^p over the leaves of the receiver
SumOfPowers(p) == SeqSum([i \in 1..Len(Norms) |-> IntPow(Norms[i], p)])

\* C18: on a rank-1 tensor over an algebra with the NormedDivisionRing tag,
\* norm(p) for a finite p other than 0 returns the p-th root of the sum of
\* norm(element)^p over the elements; for p = 1 that is the sum of the
\* absolute values.
C18_VectorPNorm ==
  (/\ last.op = "norm"
   /\ last.val.k = "num" /\ last.val.s = "" /\ last.val.n # 0
   /\ Len(mats[last.mat].size) = 1
   /\ "NormedDivisionRing" \in Tags(mats[last.mat].sa)) =>
    /\ last.res = Ok(RootOf(SumOfPowers(last.val.n), last.val.n))
    /\ last.val.n = 1 => last.res.val.v = SeqSum(Norms)

\* norm(1) of the vector [3, -4] has returned 7
C18_ExampleOneNorm ==
  /\ last.op = "norm"
  /\ last.val = PNum(1)
  /\ mats[last.mat].size = <<2>>
  /\ heap[mats[last.mat].data] = <<Num(3), Num(-4)>>
  /\ last.res = Ok(Num(7))

\* C19: on a tensor of any rank over an algebra with the NormedDivisionRing
\* tag, norm('fro') and norm() return the square root of the sum of
\* norm(element)^2 over every leaf; over an algebra without the tag they
\* throw an ArithmeticError that names NormedDivisionRing.
C19_FrobeniusNorm ==
  (last.op = "norm" /\ last.val \in {PStr("fro"), PUndefined}) =>
    IF "NormedDivisionRing" \in Tags(mats[last.mat].sa)
    THEN last.res = Ok(RootOf(SumOfPowers(2), 2))
    ELSE last.res = ArithmeticError("NormedDivisionRing")

\* norm() of a tensor of rank 3 that holds 3 and -4 has returned 5
C19_ExampleFrobeniusNorm ==
  /\ last.op = "norm"
  /\ last.val = PUndefined
  /\ mats[last.mat].size = <<1, 1, 2>>
  /\ iterate(heap, Ref(mats[last.mat].data)) = <<Num(3), Num(-4)>>
  /\ last.res = Ok(Num(5))

(***************************************************************************)
(* mul, called once on two matrices that the caller has constructed and,    *)
(* possibly, resized in place.                                              *)
(***************************************************************************)
\* the sizes of a resize made before the product; <<>> stands for none
Shrunk == { <<>>, <<0, 2>>, <<2, 0>>, <<1, 2>>, <<-1>> }

Both(lit1, lit2, size1, size2) ==
  LET r1 == build(<<>>, <<>>, lit1)
      r2 == build(r1.h, r1.m, lit2)
      p0 == [h |-> r2.h, ms |-> r1.m \o r2.m]
      p1 == IF size1 = <<>> THEN p0 ELSE mresize(p0.h, p0.ms, 1, size1, Undef, FALSE)
  IN IF size2 = <<>> THEN [h |-> p1.h, ms |-> p1.ms]
     ELSE [h |-> mresize(p1.h, p1.ms, 2, size2, Undef, FALSE).h,
           ms |-> mresize(p1.h, p1.ms, 2, size2, Undef, FALSE).ms]

InitMul ==
  \E lit1, lit2 \in Samples \cup {Identity(2)} : \E size1, size2 \in Shrunk :
    /\ heap = Both(lit1, lit2, size1, size2).h
    /\ mats = Both(lit1, lit2, size1, size2).ms
    /\ arrs = <<>>
    /\ last = Call("init", 0, <<>>, Undef, FALSE, Ok(Undef), <<>>, 0)
    /\ steps = 0

NextMul == Mul

SpecMul == InitMul /\ [][NextMul]_vars

(***************************************************************************)
(* Properties of mul (under SpecMul).                                       *)
(***************************************************************************)
\* the sum over the first k terms of a[i][.] * b[.][j], from the zero of a's
\* algebra, read through get
RECURSIVE SumOfProducts(_, _, _, _, _, _)
SumOfProducts(h, a, b, i, j, k) ==
  IF k = 0 THEN zero(a.sa)
  ELSE add(SumOfProducts(h, a, b, i, j, k - 1),
           mul(getAt(h, a, <<i, k - 1>>).val, getAt(h, b, <<k - 1, j>>).val))

\* what C20 says of a.mul(b) in the step from heap h and matrices ms to
\* heap h2 and matrices ms2 with the call c
MulContract(h, ms, h2, ms2, c) ==
  LET a == ms[c.mat]
      b == ms[c.arg[1]]
  IN IF Len(a.size) # 2 \/ Len(b.size) # 2
     THEN c.res.out = "throw" /\ c.res.err = "DimensionError"
     ELSE IF a.size[2] # b.size[1]
     THEN c.res.out = "throw" /\ c.res.err = "DimensionError"
     ELSE /\ c.res.out = "ok"
          /\ c.new = <<Len(ms) + 1>>
          /\ ms2[Len(ms) + 1].size = <<a.size[1], b.size[2]>>
          /\ \A i \in 0..(a.size[1] - 1) : \A j \in 0..(b.size[2] - 1) :
               getAt(h2, ms2[Len(ms) + 1], <<i, j>>) = Ok(SumOfProducts(h, a, b, i, j, a.size[2]))
          /\ \A k \in 1..Len(ms) : ms2[k] = ms[k]
          /\ \A x \in 1..Len(h) : h2[x] = h[x]

\* C20: a.mul(b) throws a DimensionError when a or b is not of rank 2 or
\* when a's column count differs from b's row count; otherwise it returns a
\* new tensor of size [rows(a), cols(b)] whose element [i, j] is the sum over
\* k of a[i][k] * b[k][j] in a's algebra, and it changes neither operand.
C20_MulContract ==
  [][ last'.op = "mul" => MulContract(heap, mats, heap', mats', last') ]_vars

\* a.mul(b) has thrown a TypeError for an a of size [0, 2] and a b of size [2, 2]
C20_EmptyReceiverThrows ==
  /\ last.op = "mul"
  /\ mats[last.mat].size = <<0, 2>>
  /\ mats[last.arg[1]].size = <<2, 2>>
  /\ validate(heap, Ref(mats[last.mat].data), <<0, 2>>).out = "ok"
  /\ AsConstructed(heap, mats[last.arg[1]])
  /\ last.res.out = "throw"
  /\ last.res.err = "TypeError"

(***************************************************************************)
(* add and sub, called once on two tensors that the caller has constructed  *)
(* and, possibly, resized in place.                                         *)
(***************************************************************************)
\* the operands of add and sub: vectors of one to three elements, matrices,
\* a tensor of rank 3 and vectors over a Ring that is not the numbers
Addends ==
  { Lit(<<Num(5)>>),
    Lit(<<Num(1), Num(2)>>),
    Lit(<<Num(3), Num(-4)>>),
    Lit(<<Num(1), Num(2), Num(3)>>),
    Lit(<<Lit(<<Num(1), Num(2)>>)>>),
    Lit(<<Lit(<<Num(1)>>), Lit(<<Num(2)>>)>>),
    Lit(<<Lit(<<Num(1), Num(2)>>), Lit(<<Num(3), Num(4)>>)>>),
    Lit(<<Lit(<<Lit(<<Num(1), Num(2)>>)>>)>>),
    Lit(<<RingEl(1), RingEl(2)>>),
    Lit(<<RingEl(3)>>) }

\* the sizes of a resize made before the call; <<>> stands for none
Trimmed == { <<>>, <<0>>, <<3>>, <<1, 2>> }

InitAdd ==
  \E lit1, lit2 \in Addends : \E size1, size2 \in Trimmed :
    /\ heap = Both(lit1, lit2, size1, size2).h
    /\ mats = Both(lit1, lit2, size1, size2).ms
    /\ arrs = <<>>
    /\ last = Call("init", 0, <<>>, Undef, FALSE, Ok(Undef), <<>>, 0)
    /\ steps = 0

\* mats[i].add(mats[j])
Add ==
  \E i \in 1..Len(mats) : \E j \in 1..Len(mats) :
    Applies("add", i, <<j>>, Undef, madd(heap, mats, mats[i], mats[j], "add"), 0)

\* mats[i].sub(mats[j])
Sub ==
  \E i \in 1..Len(mats) : \E j \in 1..Len(mats) :
    Applies("sub", i, <<j>>, Undef, madd(heap, mats, mats[i], mats[j], "sub"), 0)

NextAdd == Add \/ Sub

SpecAdd == InitAdd /\ [][NextAdd]_vars

(***************************************************************************)
(* Properties of add and sub (under SpecAdd).                               *)
(***************************************************************************)
\* what C21 says of a.add(m) and a.sub(m), for the call c that led to heap
\* h and matrices ms
AddContract(h, ms, c) ==
  LET a == ms[c.mat]
      m == ms[c.arg[1]]
  IN IF a.size # m.size
     THEN c.res.out = "throw" /\ c.res.err \in {"IndexError", "DimensionError"}
     ELSE /\ c.res.out = "ok"
          /\ ms[c.new[1]].size = a.size
          /\ \A idx \in IndicesOf(a.size) :
               getAt(h, ms[c.new[1]], idx) =
                 Ok(IF c.op = "add" THEN add(getAt(h, a, idx).val, getAt(h, m, idx).val)
                    ELSE sub(getAt(h, a, idx).val, getAt(h, m, idx).val))

\* C21: for tensors a and m whose sizes differ, in rank or in any dimension
\* length, also when m is the larger one, a.add(m) and a.sub(m) throw an
\* out-of-range or a dimension-mismatch error and return no tensor; when the
\* sizes are equal the result has that size and holds a[idx] + m[idx]
\* (a[idx] - m[idx]) at every index.
C21_AddSubContract ==
  last.op \in {"add", "sub"} => AddContract(heap, mats, last)

\* [1, 2].add([1, 2, 3]) has returned the tensor [2, 4]
C21_LargerOperandAccepted ==
  /\ last.op = "add"
  /\ last.res.out = "ok"
  /\ mats[last.mat].size = <<2>>
  /\ mats[last.arg[1]].size = <<3>>
  /\ AsConstructed(heap, mats[last.mat])
  /\ AsConstructed(heap, mats[last.arg[1]])
  /\ iterate(heap, Ref(mats[last.mat].data)) = <<Num(1), Num(2)>>
  /\ iterate(heap, Ref(mats[last.arg[1]].data)) = <<Num(1), Num(2), Num(3)>>
  /\ iterate(heap, Ref(mats[last.new[1]].data)) = <<Num(2), Num(4)>>

(***************************************************************************)
(* Properties of the dispatch of norm (under SpecNorm).                     *)
(***************************************************************************)
\* the three failures of C22 for a tensor M and a norm kind p
NoSuchNorm(M, p, res) ==
  /\ (Len(M.size) = 2 /\ p = PStr("-inf")) =>
       res.out = "throw" /\ res.err = "TypeError"
  /\ (Len(M.size) = 2 /\ p \notin {PNum(1), PStr("inf"), PPosInfinity, PStr("-inf")}) =>
       res.out = "throw" /\ res.err = "NotImplementedError"
  /\ Len(M.size) \notin {1, 2} => res = DimensionError(Len(M.size), 2, ">")

\* C22: for a p that is neither 'fro' nor undefined, norm(p) on a rank-2
\* tensor throws a TypeError when p is '-inf' and a NotImplementedError when
\* p is none of 1, 'inf', +Infinity and '-inf'; on a tensor whose rank is
\* neither 1 nor 2 it throws a DimensionError of 2 with the relation '>'.
\* None of these calls returns a value or changes the tensor.
C22_NormDispatchFailures ==
  [][ (/\ last'.op = "norm"
       /\ last'.val \notin {PStr("fro"), PUndefined}
       /\ \/ Len(mats[last'.mat].size) \notin {1, 2}
          \/ (Len(mats[last'.mat].size) = 2 /\ last'.val \notin {PNum(1), PStr("inf"), PPosInfinity})) =>
        /\ NoSuchNorm(mats[last'.mat], last'.val, last'.res)
        /\ last'.res.out = "throw"
        /\ heap' = heap
        /\ mats' = mats ]_vars

\* norm(-Infinity) of a 2 x 2 matrix has thrown a NotImplementedError
C22_SentinelNotImplemented ==
  /\ last.op = "norm"
  /\ last.val = PNegInfinity
  /\ mats[last.mat].size = <<2, 2>>
  /\ AsConstructed(heap, mats[last.mat])
  /\ last.res.out = "throw"
  /\ last.res.err = "NotImplementedError"

(***************************************************************************)
(* The operations that keep a tensor well formed: from a tensor constructed *)
(* from homogeneous nested data, copy construction, the JSON round trip,    *)
(* set at a valid index and resize in place to a valid size.                *)
(***************************************************************************)
\* valid sizes of rank 1 to 3: growing, shrinking, emptying, changing the rank
Resizes ==
  { <<0>>, <<1>>, <<2>>, <<3>>, <<0, 2>>, <<1, 2>>, <<2, 2>>, <<2, 0>>, <<2, 3>>,
    <<1, 1, 2>>, <<2, 1, 1>> }

InitShape ==
  \E lit \in Homogeneous \cup { Lit(<<RingEl(1), RingEl(2)>>) } :
    /\ heap = build(<<>>, <<>>, lit).h
    /\ mats = build(<<>>, <<>>, lit).m
    /\ arrs = <<>>
    /\ last = Call("init", 0, <<>>, Undef, FALSE, Ok(Undef), <<>>, 0)
    /\ steps = 0

\* mats[i].set(index, value) at a valid index, with a scalar of the tensor's algebra
SetValid ==
  \E i \in 1..Len(mats) : \E index \in IndicesOf(mats[i].size) :
    /\ Step
    /\ LET value == [k |-> KindOf(mats[i].sa), v |-> 9]
           r == set(heap, mats[i], index, value)
       IN /\ heap' = r.h
          /\ mats' = mats
          /\ last' = Call("set", i, index, value, FALSE, r.res, <<>>, 0)

\* mats[i].resize(size, d) in place, with a valid size and a scalar of the tensor's algebra
ResizeValid ==
  \E i \in 1..Len(mats) : \E size \in Resizes :
    LET d == [k |-> KindOf(mats[i].sa), v |-> 7]
        r == mresize(heap, mats, i, size, d, FALSE)
    IN /\ Step
       /\ Len(r.h) <= MaxHeap
       /\ heap' = r.h
       /\ mats' = r.ms
       /\ last' = Call("resize", i, size, d, FALSE, r.res, IF r.new = 0 THEN <<>> ELSE <<r.new>>, 0)

NextShape == Clone \/ FromJSON \/ SetValid \/ ResizeValid

SpecShape == InitShape /\ [][NextShape]_vars

(***************************************************************************)
(* Properties of the well-formed tensor (under SpecShape).                  *)
(***************************************************************************)
\* C23: after any sequence of construction from homogeneous nested data,
\* copy construction, fromJSON of a toJSON result, set of a scalar at a
\* valid index and resize to a valid size, no get at an index as long as the
\* rank and with every component within the size throws an InternalError:
\* the data validates against the size, arrays down to depth rank and no
\* array below it.
C23_NoInternalError ==
  \A i \in 1..Len(mats) :
    /\ validate(heap, Ref(mats[i].data), mats[i].size).out = "ok"
    /\ \A index \in IndicesOf(mats[i].size) :
         getAt(heap, mats[i], index).err # "InternalError"

\* a tensor of rank 2 has been resized to rank 1, then to rank 2 again, and
\* get returns at every index
C23_RankDownAndUp ==
  /\ steps = 2
  /\ last.op = "resize"
  /\ last.arg = <<2, 2>>
  /\ last.mat = 1
  /\ last.res.out = "ok"
  /\ getAt(heap, mats[1], <<0, 0>>) = Ok(Num(1))
  /\ getAt(heap, mats[1], <<1, 0>>) = Ok(Num(3))
  /\ getAt(heap, mats[1], <<0, 1>>) = Ok(Num(7))
  /\ getAt(heap, mats[1], <<1, 1>>) = Ok(Num(7))

(***************************************************************************)
(* Properties of resize in place to a size of the same rank (under Spec).   *)
(***************************************************************************)
\* the indices of n components
IndicesOfRank(n) == [1..n -> 0..MaxDim]

\* every component of the index is within the size
Within(index, size) == \A x \in 1..Len(size) : index[x] < size[x]

\* a size that utils/array resize accepts
ValidSize(size) == Len(size) >= 1 /\ \A x \in 1..Len(size) : size[x] >= 0

\* C24: after t.resize(newShape, d) with a valid newShape of t's rank,
\* t.size is newShape; every index in range of both the old and the new
\* shape holds the element it held before; every index in range of the new
\* shape but outside the old one holds d (0 when d is undefined); get at an
\* index outside the new shape throws.
C24_ResizeSemantics ==
  [][ (/\ last'.op = "resize"
       /\ ~last'.copy
       /\ ValidSize(last'.arg)
       /\ Len(last'.arg) = Len(mats[last'.mat].size)) =>
        LET old == mats[last'.mat]
            new == mats'[last'.mat]
        IN /\ last'.res.out = "ok"
           /\ new.size = last'.arg
           /\ \A index \in IndicesOfRank(Len(last'.arg)) :
                IF Within(index, last'.arg)
                THEN IF Within(index, old.size)
                     THEN getAt(heap', new, index) = getAt(heap, old, index)
                     ELSE getAt(heap', new, index) =
                            Ok(IF last'.val = Undef THEN Num(0) ELSE last'.val)
                ELSE getAt(heap', new, index).out = "throw" ]_vars

\* resize([2, 2]) of the tensor constructed from [[1, 2], [3]] has put a 0
\* at the index [1, 1], which was in range of the old size
C24_RaggedRowFilled ==
  /\ last.op = "resize"
  /\ last.res.out = "ok"
  /\ ~last.copy
  /\ last.arg = <<2, 2>>
  /\ last.val = Undef
  /\ steps = 2
  /\ LET m == mats[last.mat] IN
     /\ getAt(heap, m, <<0, 1>>) = Ok(Num(2))
     /\ getAt(heap, m, <<1, 0>>) = Ok(Num(3))
     /\ getAt(heap, m, <<1, 1>>) = Ok(Num(0))

(***************************************************************************)
(* The construction of a vector, also of the one without elements, and one  *)
(* norm of it.                                                              *)
(***************************************************************************)
\* new DenseMatrix(lit) for a vector literal; the literal is kept in last.val
ConstructVector ==
  \E kind \in Kinds : \E lit \in Vectors(kind) \cup { Lit(<<>>) } :
    LET r == build(heap, mats, lit) IN
    /\ last.op = "init"
    /\ steps' = steps + 1
    /\ arrs' = arrs
    /\ heap' = IF r.res.out = "throw" THEN heap ELSE r.h
    /\ mats' = mats \o r.m
    /\ last' = Call("new", 0, <<>>, lit, FALSE, r.res, Fresh(Len(r.m)), 0)

\* mats[i].norm(p) of the vector constructed
NormOfVector ==
  \E i \in 1..Len(mats) : \E p \in NormKinds :
    /\ last.op = "new"
    /\ steps' = steps + 1
    /\ arrs' = arrs
    /\ heap' = heap
    /\ mats' = mats
    /\ last' = Call("norm", i, <<>>, p, FALSE, norm(heap, mats, mats[i], p), <<>>, 0)

NextVector == ConstructVector \/ NormOfVector

SpecVector == Init /\ [][NextVector]_vars

(***************************************************************************)
(* Properties of the norm of a degenerate vector (under SpecVector).        *)
(***************************************************************************)
\* a vector literal of numbers that holds no element other than 0
ZeroVector(lit) ==
  lit.k = "lit" /\ \A x \in 1..Len(lit.v) : lit.v[x] = Num(0)

\* C25: for a rank-1 tensor whose elements are all zero, and for the rank-1
\* tensor without elements constructed from [], norm('inf') returns the zero
\* of the algebra, and neither the construction nor the norm throws.
C25_DegenerateInfinityNorm ==
  /\ (last.op = "new" /\ ZeroVector(last.val)) => last.res.out = "ok"
  /\ (/\ last.op = "norm"
      /\ last.val = PStr("inf")
      /\ \A x \in 1..Len(heap[mats[last.mat].data]) : heap[mats[last.mat].data][x] = Num(0)) =>
       last.res = Ok(zero(mats[last.mat].sa))

\* new DenseMatrix([]) has thrown a TypeError
C25_EmptyConstructionThrows ==
  /\ last.op = "new"
  /\ last.val = Lit(<<>>)
  /\ last.res.out = "throw"
  /\ last.res.err = "TypeError"
  /\ mats = <<>>

(***************************************************************************)
(* Properties of the minus-infinity norm of a vector (under SpecNorm).      *)
(***************************************************************************)
MinOf(S) == CHOOSE x \in S : \A y \in S : x <= y

\* C26: for every rank-1 tensor with at least one element over an algebra
\* with the Real tag, norm('-inf') and norm(-Infinity) return the smallest
\* norm(element) over all elements.
C26_VectorMinusInfinityNorm ==
  (/\ last.op = "norm"
   /\ last.val \in {PStr("-inf"), PNegInfinity}
   /\ Len(mats[last.mat].size) = 1
   /\ Len(Norms) >= 1
   /\ "Real" \in Tags(mats[last.mat].sa)) =>
    last.res = Ok(Num(MinOf({ Norms[i] : i \in 1..Len(Norms) })))

\* norm('-inf') of the vector [3, -4] has returned 0
C26_ExampleMinusInfinityNorm ==
  /\ last.op = "norm"
  /\ last.val = PStr("-inf")
  /\ mats[last.mat].size = <<2>>
  /\ heap[mats[last.mat].data] = <<Num(3), Num(-4)>>
  /\ last.res = Ok(Num(0))

(***************************************************************************)
(* Traversals of a tensor that the caller has constructed and, possibly,    *)
(* resized in place: forEach, map, and iterators that the caller advances   *)
(* one next() at a time, in any interleaving.  Here arrs holds the          *)
(* iterators the caller has requested: the matrix, the suspended stack, the *)
(* pairs yielded so far and whether the iterator has finished.              *)
(***************************************************************************)
MaxIters == 2

InitIterate ==
  \E lit \in Valid \cup Constructible : \E size \in Later \cup { <<>>, <<2, 3>> } :
    /\ heap = Prepare(lit, size, Num(7), size # <<>>).h
    /\ mats = Prepare(lit, size, Num(7), size # <<>>).ms
    /\ arrs = <<>>
    /\ last = Call("init", 0, <<>>, Undef, FALSE, Ok(Undef), <<>>, 0)
    /\ steps = 0

\* mats[i][Symbol.iterator]()
Iterate ==
  \E i \in 1..Len(mats) :
    /\ Len(arrs) < MaxIters
    /\ arrs' = Append(arrs, [mat |-> i, stack |-> << [a |-> mats[i].data, i |-> 0] >>,
                             seen |-> <<>>, done |-> FALSE])
    /\ last' = Call("iterator", i, <<>>, Undef, FALSE, Ok(Undef), <<>>, 0)
    /\ UNCHANGED <<heap, mats, steps>>

\* arrs[k].next()
NextOf ==
  \E k \in 1..Len(arrs) :
    LET r == resume(heap, arrs[k].stack) IN
    /\ ~arrs[k].done
    /\ arrs' = [arrs EXCEPT ![k] =
                 [mat |-> @.mat, stack |-> r.stack, done |-> r.done,
                  seen |-> IF r.done THEN @.seen
                           ELSE Append(@.seen, [value |-> r.value, index |-> r.index])]]
    /\ last' = Call("next", arrs[k].mat, <<k>>, Undef, FALSE, Ok(r.value), <<>>, 0)
    /\ UNCHANGED <<heap, mats, steps>>

\* mats[i].forEach((value, index) => ...): last.arg is what the callback was called with
ForEachAt ==
  \E i \in 1..Len(mats) :
    /\ last' = Call("forEach", i, visits(heap, Ref(mats[i].data), <<>>), Undef, FALSE,
                    forEach(heap, mats[i], Callback("id", Undef)).res, <<>>, 0)
    /\ UNCHANGED <<heap, mats, arrs, steps>>

\* mats[i].map((value, index) => value): last.arg is what the callback was called with
MapAt ==
  \E i \in 1..Len(mats) :
    LET r == map(heap, mats, mats[i], Callback("id", Undef)) IN
    /\ Len(mats) = 1
    /\ heap' = r.h
    /\ mats' = mats \o r.m
    /\ last' = Call("map", i, visits(heap, Ref(mats[i].data), <<>>), Undef, FALSE,
                    r.res, Fresh(Len(r.m)), r.calls)
    /\ UNCHANGED <<arrs, steps>>

NextIterate == Iterate \/ NextOf \/ ForEachAt \/ MapAt

SpecIterate == InitIterate /\ [][NextIterate]_vars

(***************************************************************************)
(* Properties of the traversals (under SpecIterate).                        *)
(***************************************************************************)
\* the index s comes before the index t, outermost component first
LexLess(s, t) ==
  \E x \in 1..Min(Len(s), Len(t)) : s[x] < t[x] /\ \A y \in 1..(x - 1) : s[y] = t[y]

\* the pairs come in row-major order, each with an index at which get
\* returns the value
InOrder(h, m, pairs) ==
  /\ \A n \in 1..Len(pairs) : getAt(h, m, pairs[n].index) = Ok(pairs[n].value)
  /\ \A n, o \in 1..Len(pairs) : n < o => LexLess(pairs[n].index, pairs[o].index)

\* as many pairs as the data has leaves
Complete(h, m, pairs) == Len(pairs) = Len(flatFrom(h, h[m.data], 1))

IsPrefix(s, t) == Len(s) <= Len(t) /\ \A n \in 1..Len(s) : s[n] = t[n]

\* C27: forEach, map and iteration visit every leaf exactly once in
\* row-major order and pass an index at which get returns the visited value;
\* two iterators on an unmodified tensor each start from the first leaf and
\* yield the same finite sequence of {value, index} pairs, also when one of
\* them is abandoned part-way.
C27_TraversalOrder ==
  /\ last.op \in {"forEach", "map"} =>
       /\ InOrder(heap, mats[last.mat], last.arg)
       /\ Complete(heap, mats[last.mat], last.arg)
  /\ \A k \in 1..Len(arrs) :
       /\ InOrder(heap, mats[arrs[k].mat], arrs[k].seen)
       /\ arrs[k].done => Complete(heap, mats[arrs[k].mat], arrs[k].seen)
  /\ \A k, l \in 1..Len(arrs) :
       arrs[k].mat = arrs[l].mat =>
         IsPrefix(arrs[k].seen, arrs[l].seen) \/ IsPrefix(arrs[l].seen, arrs[k].seen)

\* an iterator of the tensor constructed from [1, [2]] has yielded the 2
\* with the index [1, 0], at which get throws a DimensionError
C27_LeafBelowTheRank ==
  \E k \in 1..Len(arrs) :
    /\ arrs[k].done
    /\ mats[arrs[k].mat].size = <<2>>
    /\ arrs[k].seen = << [value |-> Num(1), index |-> <<0>>],
                         [value |-> Num(2), index |-> <<1, 0>>] >>
    /\ getAt(heap, mats[arrs[k].mat], <<1, 0>>).err = "DimensionError"

(***************************************************************************)
(* set, called on a tensor that the caller has constructed and, possibly,   *)
(* resized in place, and called again on what the first call returned.      *)
(***************************************************************************)
\* indices of 0 to 3 components
AnyIndices == Indices \cup { <<>> }

InitSet ==
  \E lit \in Valid \cup Constructible : \E size \in Later \cup { <<>>, <<2, 3>> } :
    /\ heap = Prepare(lit, size, Num(7), size # <<>>).h
    /\ mats = Prepare(lit, size, Num(7), size # <<>>).ms
    /\ arrs = <<>>
    /\ last = Call("init", 0, <<>>, Undef, FALSE, Ok(Undef), <<>>, 0)
    /\ steps = 0

\* mats[i].set(index, 9)
SetAt ==
  \E i \in 1..Len(mats) : \E index \in AnyIndices :
    LET r == mset(heap, mats, i, index, NewValue) IN
    /\ last.op = "init"
    /\ steps' = steps + 1
    /\ arrs' = arrs
    /\ heap' = r.h
    /\ mats' = r.ms
    /\ last' = Call("set", i, index, NewValue, FALSE, r.res, <<>>, 0)

\* t.set(...).set(index, 8): a set on what the last set returned
SetChained ==
  \E index \in AnyIndices :
    /\ last.op = "set"
    /\ last.calls < MaxWrites - 1
    /\ last.res.out = "ok"
    /\ last.res.val.k = "mat"
    /\ LET i == last.res.val.v
           r == mset(heap, mats, i, index, Num(8))
       IN /\ steps' = steps + 1
          /\ arrs' = arrs
          /\ heap' = r.h
          /\ mats' = r.ms
          /\ last' = Call("set", i, index, Num(8), FALSE, r.res, <<>>, last.calls + 1)

NextSet == SetAt \/ SetChained

SpecSet == InitSet /\ [][NextSet]_vars

(***************************************************************************)
(* Properties of set (under SpecSet).                                       *)
(***************************************************************************)
\* C28: set(index, value) with an index shorter than the rank throws a
\* DimensionError with the relation '<' and leaves every element and the
\* shape as they were; a set that succeeds writes into the receiver's own
\* data and returns the receiver itself, so that calls can be chained.
C28_SetContract ==
  [][ last'.op = "set" =>
        /\ Len(last'.arg) < Len(mats[last'.mat].size) =>
             /\ last'.res = DimensionError(Len(last'.arg), Len(mats[last'.mat].size), "<")
             /\ heap' = heap
             /\ mats' = mats
        /\ last'.res.out = "ok" =>
             /\ last'.res.val = Mat(last'.mat)
             /\ mats' = mats
             /\ Len(heap') = Len(heap)
             /\ \A a \in 1..Len(heap) : a \notin Reachable(heap, mats[last'.mat].data) => heap'[a] = heap[a]
             /\ ValidIndex(mats[last'.mat], last'.arg) =>
                  getAt(heap', mats'[last'.mat], last'.arg) = Ok(last'.val) ]_vars

\* t.set([0, 0], 9).set([1, 1], 8) on the tensor constructed from
\* [[1, 2], [3, 4]] has returned t, which holds both values
C28_ChainedSets ==
  /\ last.op = "set"
  /\ last.calls = 1
  /\ last.arg = <<1, 1>>
  /\ last.res = Ok(Mat(1))
  /\ mats[1].size = <<2, 2>>
  /\ getAt(heap, mats[1], <<0, 0>>) = Ok(Num(9))
  /\ getAt(heap, mats[1], <<0, 1>>) = Ok(Num(2))
  /\ getAt(heap, mats[1], <<1, 0>>) = Ok(Num(3))
  /\ getAt(heap, mats[1], <<1, 1>>) = Ok(Num(8))

(***************************************************************************)
(* The datatype of a tensor that is read, written to and resized.  Here     *)
(* arrs holds, for every tensor, the datatype the caller knows of it: the   *)
(* one supplied at its construction, else the one first read, "unknown"     *)
(* before that.                                                             *)
(***************************************************************************)
\* the literals of the tensors whose datatype is read
Typed ==
  { Lit(<<Num(1), Num(2)>>),
    Lit(<<Lit(<<Num(1), Num(2)>>), Lit(<<Num(3), Num(4)>>)>>),
    Lit(<<Lit(<<Num(1), Num(2)>>), Lit(<<Num(3)>>)>>),
    Lit(<<Num(1), Str>>),
    Lit(<<RingEl(1), RingEl(2)>>) }

\* the datatype argument of a constructor: none, or a tag of the caller's
Supplied == { "undefined", "custom" }

InitType ==
  \E lit \in Typed : \E dt \in Supplied : \E emptied \in BOOLEAN :
    LET c == literal(<<>>, lit)
        r == newFromArrayTyped(c.h, <<>>, c.val.v, dt)
        e == mresize(r.h, r.m, 1, <<0>>, Undef, FALSE)
    IN /\ heap = IF emptied THEN e.h ELSE r.h
       /\ mats = IF emptied THEN e.ms ELSE r.m
       /\ arrs = << IF dt = "undefined" THEN "unknown" ELSE dt >>
       /\ last = Call("init", 0, <<>>, Undef, FALSE, Ok(Undef), <<>>, 0)
       /\ steps = 0

\* mats[i].datatype
ReadDatatype ==
  \E i \in 1..Len(mats) :
    LET r == datatype(heap, mats[i]) IN
    /\ steps < MaxSteps
    /\ steps' = steps + 1
    /\ heap' = heap
    /\ mats' = [mats EXCEPT ![i] = r.m]
    /\ arrs' = [arrs EXCEPT ![i] = IF @ = "unknown" THEN r.val ELSE @]
    /\ last' = Call("datatype", i, <<>>, Undef, FALSE, OkString(r.val), <<>>, 0)

\* mats[i].set(index, value) at a valid index, with a number or a string
SetLeaf ==
  \E i \in 1..Len(mats) : \E index \in IndicesOf(mats[i].size) : \E value \in {NewValue, Str} :
    /\ Step
    /\ LET r == set(heap, mats[i], index, value) IN
       /\ heap' = r.h
       /\ mats' = mats
       /\ last' = Call("set", i, index, value, FALSE, r.res, <<>>, 0)

\* mats[i].resize(size) in place
ResizeInPlace ==
  \E i \in 1..Len(mats) : \E size \in { <<0>>, <<1>>, <<2, 2>> } :
    LET r == mresize(heap, mats, i, size, Undef, FALSE) IN
    /\ Step
    /\ Len(r.h) <= MaxHeap
    /\ heap' = r.h
    /\ mats' = r.ms
    /\ last' = Call("resize", i, size, Undef, FALSE, r.res, <<>>, 0)

\* new DenseMatrix(mats[i], 'custom')
CopyTyped ==
  \E i \in 1..Len(mats) :
    LET r == newFromMatrixTyped(heap, mats[i], "custom") IN
    /\ steps < MaxSteps
    /\ steps' = steps + 1
    /\ Len(mats) < 2
    /\ heap' = IF r.res.out = "throw" THEN heap ELSE r.h
    /\ mats' = mats \o r.m
    /\ arrs' = arrs \o [j \in 1..Len(r.m) |-> "custom"]
    /\ last' = Call("copy", i, <<>>, Undef, FALSE, r.res, Fresh(Len(r.m)), 0)

NextType == ReadDatatype \/ SetLeaf \/ ResizeInPlace \/ CopyTyped

SpecType == InitType /\ [][NextType]_vars

(***************************************************************************)
(* Properties of the datatype (under SpecType).                             *)
(***************************************************************************)
\* C29: once t.datatype has been read, or supplied at construction, every
\* later read returns that same value, after any sequence of set and
\* in-place resize calls, also when those calls change the classification
\* of the leaves.
C29_DatatypeKept ==
  [][ (last'.op = "datatype" /\ arrs[last'.mat] # "unknown") =>
        last'.res = OkString(arrs[last'.mat]) ]_vars

\* the datatype of a tensor without elements was read as undefined, and
\* after resize([1]) it is read as 'number'
C29_UndefinedNotKept ==
  /\ last.op = "datatype"
  /\ arrs[last.mat] = "undefined"
  /\ last.res = OkString("number")
  /\ mats[last.mat].size = <<1>>
  /\ heap[mats[last.mat].data] = <<Num(0)>>

(***************************************************************************)
(* The caller keeps the array arr (at the address arrs[1]) from which it    *)
(* constructs one tensor or several, then calls set and resize on them and  *)
(* writes into arr itself.                                                  *)
(***************************************************************************)
MaxShared == 2

\* the indices of set and the places of arr the caller writes to
Paths == { <<0>>, <<1>>, <<2>>, <<0, 0>>, <<0, 1>>, <<1, 0>>, <<0, 0, 1>> }

Reshapes == { <<3>>, <<-1>>, <<1, 2>>, <<2, 2>> }

\* arr is a literal; or it is [A, A] for a matrix A constructed before
InitShare ==
  \E lit \in Homogeneous \cup Inhomogeneous \cup { Lit(<<Mat(1), Mat(1)>>) } :
    LET A == IF lit = Lit(<<Mat(1), Mat(1)>>)
             THEN build(<<>>, <<>>, Lit(<<Num(1), Num(2)>>))
             ELSE [h |-> <<>>, m |-> <<>>]
        c == literal(A.h, lit)
    IN /\ heap = c.h
       /\ mats = A.m
       /\ arrs = <<c.val.v>>
       /\ last = Call("init", 0, <<>>, Undef, FALSE, Ok(Undef), <<>>, 0)
       /\ steps = 0

\* t = new DenseMatrix(arr); arr stays with the caller when this throws
ConstructShared ==
  LET r == newFromArray(heap, mats, arrs[1]) IN
  /\ last.op \in {"init", "new"}
  /\ steps < MaxShared
  /\ steps' = steps + 1
  /\ arrs' = arrs
  /\ heap' = r.h
  /\ mats' = mats \o r.m
  /\ last' = Call("new", 0, <<>>, Undef, FALSE, r.res, Fresh(Len(r.m)), 0)

\* mats[i].set(index, 9)
SetShared ==
  \E i \in 1..Len(mats) : \E index \in Paths :
    LET r == mset(heap, mats, i, index, NewValue) IN
    /\ last.op # "init"
    /\ last.calls < MaxWrites
    /\ steps' = steps + 1
    /\ arrs' = arrs
    /\ heap' = r.h
    /\ mats' = r.ms
    /\ last' = Call("set", i, index, NewValue, FALSE, r.res, <<>>, last.calls + 1)

\* mats[i].resize(size, 7), in place
ResizeShared ==
  \E i \in 1..Len(mats) : \E size \in Reshapes :
    LET r == mresize(heap, mats, i, size, Num(7), FALSE) IN
    /\ last.op # "init"
    /\ last.calls < MaxWrites
    /\ steps' = steps + 1
    /\ arrs' = arrs
    /\ heap' = r.h
    /\ mats' = r.ms
    /\ last' = Call("resize", i, size, Num(7), FALSE, r.res, <<>>, last.calls + 1)

\* arr[path[1]]...[path[n]] = 8 for an element that arr has
WriteShared ==
  \E path \in Paths :
    /\ last.op # "init"
    /\ last.calls < MaxWrites
    /\ isArray(holder(heap, Ref(arrs[1]), path, 1))
    /\ steps' = steps + 1
    /\ arrs' = arrs
    /\ heap' = assign(heap, arrs[1], path, Num(8))
    /\ mats' = mats
    /\ last' = Call("assign", 0, path, Num(8), FALSE, Ok(Undef), <<>>, last.calls + 1)

NextShare == ConstructShared \/ SetShared \/ ResizeShared \/ WriteShared

SpecShare == InitShare /\ [][NextShare]_vars

(***************************************************************************)
(* Properties of the construction from an array (under SpecShare).          *)
(***************************************************************************)
\* an array that holds a matrix, at any depth
RECURSIVE hasMatrix(_, _)
hasMatrix(h, x) ==
  IF isArray(x) THEN \E j \in 1..Len(h[x.v]) : hasMatrix(h, h[x.v][j])
  ELSE x.k = "mat"

\* the tensors whose data is the array arr
OnArr(ms) == { i \in 1..Len(ms) : valueOf(ms[i]) = arrs[1] }

====
